---- MODULE Spec2Model ----
(***************************************************************************)
(* A state-machine model of DomainCheckService (services/DomainCheckService *)
(* .ts): the TLD registry, checkDomains' window loop, checkSingleDomain and *)
(* the callback-driven WHOIS exchange of whoisQuery / hostnameToIp, and of  *)
(* the command-line checker (services/DomainMegaBot.ts): main's loop over  *)
(* the dictionary, checkDomain's retries and its own whoisQuery; and of    *)
(* the HTTP route (api/domain-check/route.ts) that serves concurrent GET   *)
(* and POST requests on the one service instance.                          *)
(*                                                                         *)
(* One step of the model is one turn of the Node.js event loop: a timer or *)
(* socket callback together with every promise continuation (microtask)    *)
(* it makes runnable.  Strings are sequences of one-character (or          *)
(* one-token) strings, so that concatenation, trim and includes are        *)
(* computed rather than assumed.                                           *)
(***************************************************************************)
EXTENDS Integers, Sequences, FiniteSets, TLC

\* ------------------------------------------------------------------ bounds
\* longest keywords argument of a checkDomains call
MaxKeywords == 2
\* longest tlds argument of a checkDomains call
MaxTlds == 2
\* most data events one WHOIS exchange receives
MaxChunks == 1
\* longest response text (in tokens) of the one-task runs of DetailSpec
MaxText == 3
\* most keywords of the invalid-server batches of DetailSpec
MaxBatch == 7
\* last value of the clock in DetailSpec
MaxClock == 2
\* most lines of the dictionary file the command-line checker reads
MaxPrefixes == 2
\* most requests the route serves in one behaviour
MaxRequests == 2
\* most entries of the keywords and of the tlds array of a large POST body
MaxEntries == 11
\* most keyword lists the keyword input passes to the page
MaxUpdates == 3

\* ------------------------------------------------------------ string model
COM == <<"c", "o", "m">>
NET == <<"n", "e", "t">>
ORG == <<"o", "r", "g">>
IO == <<"i", "o">>
DEV == <<"d", "e", "v">>
ZZ == <<"z", "z">>

\* WHOIS hosts (one token per host name)
Verisign == <<"whois.verisign-grs.com">>
Pir == <<"whois.pir.org">>
NicIo == <<"whois.nic.io">>
OldIo == <<"whois.old.io">>
Blank == <<" ">>

\* availability patterns and the words a WHOIS answer is made of
NoMatchFor == <<"No match for">>
NotFound == <<"NOT FOUND">>
DomainName == <<"Domain Name:">>

\* String.prototype.trim on the sequence model
RECURSIVE TrimLeft(_)
TrimLeft(s) ==
    IF s # <<>> /\ Head(s) = " " THEN TrimLeft(Tail(s)) ELSE s

RECURSIVE TrimRight(_)
TrimRight(s) ==
    IF s # <<>> /\ s[Len(s)] = " " THEN TrimRight(SubSeq(s, 1, Len(s) - 1)) ELSE s

Trim(s) == TrimRight(TrimLeft(s))

\* mutant: the pattern is only looked for at the start of the text
IncludesAtStart(text, pattern) ==
    /\ Len(pattern) <= Len(text)
    /\ SubSeq(text, 1, Len(pattern)) = pattern

\* String.prototype.includes: literal, case-sensitive substring search
Includes(text, pattern) ==
    \E i \in 0 .. (Len(text) - Len(pattern)) :
        SubSeq(text, i + 1, i + Len(pattern)) = pattern

\* ---------------------------------------------------------------- registry
TldConfig(n, s, p, e) ==
    [name |-> n, server |-> s, availablePattern |-> p, enabled |-> e,
     displayName |-> <<".">> \o n]

\* the configuration initialize falls back to
DefaultTlds ==
    << TldConfig(COM, Verisign, NoMatchFor, TRUE),
       TldConfig(NET, Verisign, NoMatchFor, TRUE),
       TldConfig(ORG, Pir, NotFound, TRUE) >>

\* what reading app/config/tld-config.json may give:
\*   read   fs.readFile fulfilled (FALSE: the file is missing or unreadable)
\*   json   <<>> when JSON.parse throws, else <<the parsed document>>
\*   tlds   of a document: <<>> when config.tlds is missing or not an array,
\*          else <<the array>>
Unreadable == [read |-> FALSE, json |-> <<>>]
Garbled == [read |-> TRUE, json |-> <<>>]
Document(tldsField) == [read |-> TRUE, json |-> << [tlds |-> tldsField] >>]

ConfigFiles ==
    { Unreadable, Garbled, Document(<<>>),
      Document(<< << TldConfig(COM, Verisign, NoMatchFor, TRUE),
                     TldConfig(IO, OldIo, NotFound, FALSE),
                     TldConfig(IO, NicIo, NoMatchFor, TRUE),
                     TldConfig(DEV, Blank, NotFound, TRUE),
                     TldConfig(ZZ, Pir, NotFound, FALSE) >> >>) }

\* ------------------------------------------------------------------ inputs
KeywordPool ==
    << <<"a">>, <<"b">>, <<"c">>, <<"d">>, <<"e">>, <<"f">>, <<"g">>, <<"h">> >>
TldPool == {COM, IO, DEV, ZZ}

\* the keywords arguments tried: prefixes of KeywordPool
KeywordArgs == { SubSeq(KeywordPool, 1, n) : n \in 0 .. MaxKeywords }

\* the tlds arguments tried: every list over TldPool up to MaxTlds names
TldArgs == UNION { [1 .. n -> TldPool] : n \in 0 .. MaxTlds }

\* the chunks a WHOIS server may send
Chunks == {NoMatchFor, NotFound, DomainName}

\* DetailSpec follows single exchanges closely: patterns of several tokens,
\* answers that arrive in pieces and differ in case, blank and padded
\* server names
NoMatch == <<"No", "match">>
Match == <<"match">>
Padded == <<" ", "whois.nic.io">>
Spaces == <<" ", " ">>

DetailConfigFiles ==
    { Unreadable,
      Document(<< << TldConfig(COM, Verisign, NoMatch, TRUE),
                     TldConfig(IO, Padded, Match, TRUE),
                     TldConfig(DEV, <<>>, NoMatch, TRUE),
                     TldConfig(ZZ, Spaces, NoMatch, TRUE) >> >>) }

DetailChunks == { <<"No">>, <<"match">>, <<"no">>, <<"No", "match">> }

\* the calls DetailSpec tries: at most one keyword and one name, or up to
\* MaxBatch keywords on one name (whose server may be blank)
DetailCalls ==
    { <<kw, tl>> \in { SubSeq(KeywordPool, 1, n) : n \in 0 .. 1 }
                     \X UNION { [1 .. n -> TldPool] : n \in 0 .. 1 } : TRUE }
    \cup { <<SubSeq(KeywordPool, 1, n), <<DEV>> >> : n \in 2 .. MaxBatch }

\* StreamSpec follows two exchanges of one window that receive their
\* answers in pieces
StreamCalls == { <<SubSeq(KeywordPool, 1, 2), <<COM>> >> }
StreamChunks == { <<"No">>, <<"match">> }

\* ------------------------------------------------------------------- state
VARIABLES
    tldConfigs,      \* DomainCheckService.tldConfigs
    pc,              \* where the checkDomains call stands
    keywords,        \* the keywords argument of the call
    tlds,            \* the tlds argument of the call
    domainsToCheck,  \* the task list built by the call
    chunks,          \* the task list cut into windows
    chunkIdx,        \* the window the loop is at (0: none yet)
    exch,            \* per task: the closure state of its WHOIS exchange
    results,         \* the results list of the call
    thrown,          \* the message of the error the call threw (<<>>: none)
    delays,          \* pacing timers of the call that have fired
    now,             \* the clock Date.now() reads
    cli,             \* the command-line checker: main, checkDomain, whoisQuery
    http,            \* the route module: serviceInitialized and its requests
    ui               \* the KeywordInput component of the page

vars == <<tldConfigs, pc, keywords, tlds, domainsToCheck, chunks, chunkIdx,
          exch, results, thrown, delays, now, cli, http, ui>>

concurrencyLimit == 3

\* --------------------------------------------------- task list and windows
\* mutant: the filter forgets the enabled flag
ValidTldsIgnoringEnabled(cfgs, tl) ==
    SelectSeq(tl, LAMBDA n : \E k \in DOMAIN cfgs : cfgs[k].name = n)

\* mutant: every requested name is kept
ValidTldsUnfiltered(cfgs, tl) == tl

\* tlds.filter(tld => tldConfigs.some(c => c.name === tld && c.enabled))
ValidTlds(cfgs, tl) ==
    SelectSeq(tl, LAMBDA n :
        \E k \in DOMAIN cfgs : cfgs[k].name = n /\ cfgs[k].enabled)

\* tldConfigs.find(c => c.name === tld): the first entry of that name
FindConfig(cfgs, n) ==
    LET hits == { k \in DOMAIN cfgs : cfgs[k].name = n }
    IN  IF hits = {} THEN <<>>
        ELSE << cfgs[CHOOSE k \in hits : \A h \in hits : k <= h] >>

\* the inner loop of the cross product: one task per valid TLD
RECURSIVE TasksOfKeyword(_, _, _)
TasksOfKeyword(cfgs, keyword, valid) ==
    IF valid = <<>> THEN <<>>
    ELSE LET found == FindConfig(cfgs, Head(valid))
             rest == TasksOfKeyword(cfgs, keyword, Tail(valid))
         IN  IF found = <<>> THEN rest
             ELSE << [domain |-> keyword \o <<".">> \o Head(valid),
                      tld |-> Head(valid),
                      server |-> found[1].server,
                      pattern |-> found[1].availablePattern] >> \o rest

\* the outer loop of the cross product
RECURSIVE BuildTasks(_, _, _)
BuildTasks(cfgs, kw, valid) ==
    IF kw = <<>> THEN <<>>
    ELSE TasksOfKeyword(cfgs, Head(kw), valid) \o BuildTasks(cfgs, Tail(kw), valid)

\* mutant: no chunking, every task goes into one window
ChunksOfUnbounded(items) == IF items = <<>> THEN <<>> ELSE << items >>

\* mutant: the short window comes first instead of last
RECURSIVE ChunksOfRemainderFirst(_)
ChunksOfRemainderFirst(items) ==
    IF items = <<>> THEN <<>>
    ELSE LET r == Len(items) % concurrencyLimit
             n == IF r = 0 THEN concurrencyLimit ELSE r
         IN  << SubSeq(items, 1, n) >>
                \o ChunksOfRemainderFirst(SubSeq(items, n + 1, Len(items)))

\* for (i = 0; i < n; i += concurrencyLimit) chunks.push(slice(i, i + limit))
RECURSIVE ChunksOf(_)
ChunksOf(items) ==
    IF items = <<>> THEN <<>>
    ELSE LET n == IF Len(items) < concurrencyLimit THEN Len(items)
                  ELSE concurrencyLimit
         IN  << SubSeq(items, 1, n) >> \o ChunksOf(SubSeq(items, n + 1, Len(items)))

\* the number of tasks in the windows before window c
RECURSIVE Offset(_, _)
Offset(cs, c) == IF c <= 1 THEN 0 ELSE Offset(cs, c - 1) + Len(cs[c - 1])

\* the indices (into domainsToCheck) of the tasks of window c
ChunkTasks(cs, c) ==
    IF c \in DOMAIN cs THEN (Offset(cs, c) + 1) .. (Offset(cs, c) + Len(cs[c]))
    ELSE {}

\* ------------------------------------------------- one WHOIS exchange (q)
\* q is the state one checkSingleDomain call closes over:
\*   promise         whoisQuery's promise: none, pending, resolved, rejected
\*   dns             the lookup: none, pending (timer armed), timedOut (timer
\*                   fired, callback still to come), answered
\*   sock            none, connecting, open, ended (socket.end() called),
\*                   destroyed
\*   connectTimeout  unset, armed, off (fired or cleared)
\*   dataTimeout     unset, armed5000, armed1000, off (fired or cleared)
\*   response        the text accumulated
\*   written         the lines written to the socket
\*   timestamp       the timestamp checkSingleDomain gave its result object
\*   result          <<>> until checkSingleDomain returns, then <<its result>>
\*   settledAt       (observation only) <<>>, then <<the clock value at which
\*                   whoisQuery's promise settled>>
NoExchange ==
    [promise |-> "none", dns |-> "none", sock |-> "none",
     connectTimeout |-> "unset", dataTimeout |-> "unset",
     response |-> <<>>, written |-> <<>>, timestamp |-> 0, result |-> <<>>,
     settledAt |-> <<>>]

\* clearTimeout: a timer that is not armed is left as it is
ClearTimer(t) == IF t \in {"armed", "armed5000", "armed1000"} THEN "off" ELSE t

\* mutant: resolve overwrites the outcome of a promise that is already settled
ResolveAlways(q, item) ==
    [q EXCEPT !.promise = "resolved",
              !.settledAt = <<now>>,
              !.result = << [domain |-> item.domain,
                             available |-> Includes(q.response, item.pattern),
                             tld |-> item.tld,
                             timestamp |-> q.timestamp,
                             error |-> <<>>] >>]

\* resolve(response) and the continuation of checkSingleDomain's try block;
\* a promise that is already settled ignores it
Resolve(q, item) ==
    IF q.promise # "pending" THEN q
    ELSE [q EXCEPT !.promise = "resolved",
                   !.settledAt = <<now>>,
                   !.result = << [domain |-> item.domain,
                                  available |-> Includes(q.response, item.pattern),
                                  tld |-> item.tld,
                                  timestamp |-> q.timestamp,
                                  error |-> <<>>] >>]

\* mutant: the catch block leaves result.error unset
RejectKeepsErrorUnset(q, item, msg) ==
    IF q.promise # "pending" THEN q
    ELSE [q EXCEPT !.promise = "rejected",
                   !.settledAt = <<now>>,
                   !.result = << [domain |-> item.domain,
                                  available |-> FALSE,
                                  tld |-> item.tld,
                                  timestamp |-> q.timestamp,
                                  error |-> <<>>] >>]

\* mutant: the catch block classifies what was received before the failure
RejectClassifies(q, item, msg) ==
    IF q.promise # "pending" THEN q
    ELSE [q EXCEPT !.promise = "rejected",
                   !.settledAt = <<now>>,
                   !.result = << [domain |-> item.domain,
                                  available |-> Includes(q.response, item.pattern),
                                  tld |-> item.tld,
                                  timestamp |-> q.timestamp,
                                  error |-> msg] >>]

\* mutant: a failed query is started again
RejectRetries(q, item, msg) ==
    IF q.promise # "pending" THEN q
    ELSE [NoExchange EXCEPT !.promise = "pending", !.dns = "pending",
                            !.timestamp = q.timestamp]

\* reject(new Error(msg)) and checkSingleDomain's catch block
Reject(q, item, msg) ==
    IF q.promise # "pending" THEN q
    ELSE [q EXCEPT !.promise = "rejected",
                   !.settledAt = <<now>>,
                   !.result = << [domain |-> item.domain,
                                  available |-> FALSE,
                                  tld |-> item.tld,
                                  timestamp |-> q.timestamp,
                                  error |-> msg] >>]

\* mutant: the validation accepts a server made of whitespace only
CheckSingleDomainNoTrim(item) ==
    LET q == [NoExchange EXCEPT !.promise = "pending", !.timestamp = now]
    IN  IF item.server = <<>>
        THEN Reject(q, item, <<"Invalid server address: ">>
                               \o <<"Invalid WHOIS server address">>)
        ELSE [q EXCEPT !.dns = "pending"]

\* checkSingleDomain up to its first suspension: whoisQuery validates the
\* server and starts the DNS lookup under its 5 s timer
CheckSingleDomain(item) ==
    LET q == [NoExchange EXCEPT !.promise = "pending", !.timestamp = now]
    IN  IF item.server = <<>> \/ Trim(item.server) = <<>>
        THEN Reject(q, item, <<"Invalid server address: ">>
                               \o <<"Invalid WHOIS server address">>)
        ELSE [q EXCEPT !.dns = "pending"]

\* hostnameToIp's timer callback: reject('DNS lookup timeout'), which
\* whoisQuery turns into its own rejection
OnDnsTimeout(q, item) ==
    Reject([q EXCEPT !.dns = "timedOut"], item,
           <<"Failed to resolve hostname: ">> \o <<"DNS lookup timeout">>)

\* mutant: an answer that comes after the DNS timer fired is used all the same
OnLookupIgnoringTimeout(q, item, err) ==
    IF err
    THEN Reject([q EXCEPT !.dns = "answered"], item,
                <<"Failed to resolve hostname: ">> \o <<"ENOTFOUND">>)
    ELSE [q EXCEPT !.dns = "answered", !.sock = "connecting",
                   !.connectTimeout = "armed"]

\* the dns.lookup callback; on success whoisQuery goes on to create the
\* socket, arm the connect timer and call socket.connect.  After the timer
\* has fired hostnameToIp's promise is settled and the callback changes
\* nothing but the (already fired) timer
OnLookup(q, item, err) ==
    IF q.dns = "timedOut" THEN [q EXCEPT !.dns = "answered"]
    ELSE IF err
    THEN Reject([q EXCEPT !.dns = "answered"], item,
                <<"Failed to resolve hostname: ">> \o <<"ENOTFOUND">>)
    ELSE [q EXCEPT !.dns = "answered", !.sock = "connecting",
                   !.connectTimeout = "armed"]

\* the 'close' handler (the socket is closed or was destroyed)
OnClose(q, item) ==
    Resolve([q EXCEPT !.sock = "destroyed",
                      !.dataTimeout = ClearTimer(q.dataTimeout)], item)

\* mutant: the connect timer destroys the socket and forgets to reject
OnConnectTimeoutSilent(q, item) ==
    [q EXCEPT !.connectTimeout = "off", !.sock = "destroyed"]

\* the connect timer's callback; destroying the socket emits 'close'
OnConnectTimeout(q, item) ==
    LET fired == [q EXCEPT !.connectTimeout = "off"]
    IN  IF q.sock # "destroyed"
        THEN OnClose(Reject([fired EXCEPT !.sock = "destroyed"], item,
                            <<"Connection timeout for ">> \o item.server), item)
        ELSE fired

\* the callback of socket.connect
OnConnect(q, item) ==
    [q EXCEPT !.sock = "open",
              !.connectTimeout = ClearTimer(q.connectTimeout),
              !.written = Append(q.written, item.domain \o <<"\r\n">>),
              !.dataTimeout = "armed5000"]

\* the data timer armed by the connect callback (no byte received for 5 s)
OnDataTimeout(q, item) ==
    LET fired == [q EXCEPT !.dataTimeout = "off"]
    IN  IF q.sock # "destroyed"
        THEN OnClose(Reject([fired EXCEPT !.sock = "destroyed"], item,
                            <<"Data receive timeout for ">> \o item.server), item)
        ELSE fired

\* mutant: the 'data' handler sends the query line again
OnDataRepeatsQuery(q, data) ==
    [q EXCEPT !.response = q.response \o data,
              !.dataTimeout = "armed1000",
              !.written = q.written \o q.written]

\* mutant: the 'data' handler keeps the last chunk only
OnDataKeepsLast(q, data) ==
    [q EXCEPT !.response = data, !.dataTimeout = "armed1000"]

\* the 'data' handler
OnData(q, data) ==
    [q EXCEPT !.response = q.response \o data,
              !.dataTimeout = "armed1000"]

\* the data timer armed by the 'data' handler (1 s of silence): socket.end()
\* sends FIN and leaves the socket readable until the peer closes
OnIdleTimeout(q) ==
    [q EXCEPT !.dataTimeout = "off",
              !.sock = IF q.sock = "open" THEN "ended" ELSE q.sock]

\* mutant: a socket error ends the exchange as a close does
OnErrorAsClose(q, item, code) == OnClose(q, item)

\* the 'error' handler, followed by the 'close' event Node emits next
OnError(q, item, code) ==
    OnClose(Reject([q EXCEPT !.connectTimeout = ClearTimer(q.connectTimeout),
                             !.dataTimeout = ClearTimer(q.dataTimeout)],
                   item, <<"Failed to connect to WHOIS server: ">> \o <<code>>),
            item)

\* ------------------------------------------------------ the window loop
\* mutant: the loop goes on as soon as one task of the window has settled
ChunkSettledAny(e, cs, c) == \E k \in ChunkTasks(cs, c) : e[k].result # <<>>

\* Promise.allSettled(chunkPromises) has settled: every task of window c has
\* returned from checkSingleDomain
ChunkSettled(e, cs, c) == \A k \in ChunkTasks(cs, c) : e[k].result # <<>>

\* chunkResults.forEach: the value of a fulfilled promise, an error result
\* for a rejected one (checkSingleDomain catches everything, so every
\* promise is fulfilled once it has a result)
SettledResult(q, item) ==
    IF q.result # <<>> THEN q.result[1]
    ELSE [domain |-> item.domain, available |-> FALSE, tld |-> item.tld,
          timestamp |-> now,
          error |-> <<"Error: ">> \o <<"Unknown error">>]

\* mutant: only the tasks that ended without an error are appended
ChunkResultsFulfilledOnly(e, items, cs, c) ==
    SelectSeq([j \in 1 .. Len(cs[c]) |->
                  SettledResult(e[Offset(cs, c) + j], items[Offset(cs, c) + j])],
              LAMBDA r : r.error = <<>>)

\* mutant: the window's results are appended last task first
ChunkResultsReversed(e, items, cs, c) ==
    [j \in 1 .. Len(cs[c]) |->
        SettledResult(e[Offset(cs, c) + Len(cs[c]) + 1 - j],
                      items[Offset(cs, c) + Len(cs[c]) + 1 - j])]

\* the results window c appends, in the order of the window's tasks
ChunkResults(e, items, cs, c) ==
    [j \in 1 .. Len(cs[c]) |->
        SettledResult(e[Offset(cs, c) + j], items[Offset(cs, c) + j])]

\* chunk.map(item => this.checkSingleDomain(...)): every task of window c is
\* started in the same turn
StartChunk(e, items, cs, c) ==
    [k \in DOMAIN e |->
        IF k \in ChunkTasks(cs, c) THEN CheckSingleDomain(items[k]) ELSE e[k]]

\* the rest of the turn after the exchanges became e: when the window the
\* loop awaits has settled, its results are appended and the 500 ms pacing
\* timer is armed
Continue(e, items, cs, c, res) ==
    /\ exch' = e
    /\ IF ChunkSettled(e, cs, c)
       THEN /\ results' = res \o ChunkResults(e, items, cs, c)
            /\ pc' = "pacing"
       ELSE /\ results' = res
            /\ pc' = "running"

\* ------------------------------------- the command-line checker (cli)
\* TLD_DATA: one line per TLD, `ext=server=pattern`; a line is kept as the
\* array line.split('=') gives.  The file read by main is unreadable, or
\* holds these lines (io twice, once with an empty pattern)
Zero == <<"0">>
TldDataLines ==
    << <<COM, Verisign, NoMatch>>,
       <<IO, NicIo, <<>> >>,
       <<IO, OldIo, Match>>,
       <<Zero, Pir, Match>> >>
TldDataFiles == { [ok |-> FALSE, lines |-> <<>>],
                  [ok |-> TRUE, lines |-> TldDataLines] }

\* the answers to "PLEASE SPECIFY TLD"
TldAnswers == {COM, IO, ZZ, Zero}

\* domainExt, whoisQueryServer and noMatchPattern before the search
CliNoTld == [domainExt |-> Zero, whoisQueryServer |-> <<>>,
             noMatchPattern |-> <<>>]

\* the search loop of main: the first line whose first field is ext
RECURSIVE CliFindTld(_, _)
CliFindTld(lines, ext) ==
    IF lines = <<>> THEN CliNoTld
    ELSE IF Head(lines)[1] = ext
         THEN [domainExt |-> Head(lines)[1],
               whoisQueryServer |-> Head(lines)[2],
               noMatchPattern |-> Head(lines)[3]]
         ELSE CliFindTld(Tail(lines), ext)

\* the first and the last line main writes to the results file
Header == <<"header">>
Footer == <<"footer">>

\* the lines a dictionary file is made of, and the files
DictionaryLines == {<<"a">>, <<"b">>, <<>>, <<" ">>}
Dictionaries == UNION { [1 .. n -> DictionaryLines] : n \in 1 .. MaxPrefixes }
\* what reading the dictionary file may give
DictionaryFiles ==
    { [ok |-> FALSE, lines |-> <<>>] }
    \cup { [ok |-> TRUE, lines |-> d] : d \in Dictionaries }

\* the closure state of one whoisQuery call of the command-line checker
CliNoExchange ==
    [promise |-> "none", dns |-> "none", sock |-> "none", timer |-> "unset",
     response |-> <<>>, written |-> <<>>]

\* main before it has read the dictionary
CliNotStarted ==
    [pc |-> "idle", domainPrefixes |-> <<>>, idx |-> 0, retries |-> 0,
     queries |-> 0, attempts |-> 0, waits |-> 0, q |-> CliNoExchange,
     returned |-> <<>>, file |-> <<>>, tld |-> CliNoTld, exit |-> <<>>]

\* whoisQuery up to its first suspension: the lookup is started
CliWhoisQuery == [CliNoExchange EXCEPT !.promise = "pending", !.dns = "pending"]

\* the dns.lookup callback; on success whoisQuery creates the socket, calls
\* socket.connect and arms its 10 s timer
CliOnLookup(q, err) ==
    IF err
    THEN [q EXCEPT !.dns = "answered", !.promise = "rejected"]
    ELSE [q EXCEPT !.dns = "answered", !.sock = "connecting", !.timer = "armed"]

\* the callback of socket.connect
CliOnConnect(q, query) ==
    [q EXCEPT !.sock = "open", !.written = Append(q.written, query \o <<"\r\n">>)]

\* the 'data' handler
CliOnData(q, data) == [q EXCEPT !.response = q.response \o data]

\* the 'close' handler: resolve(response)
CliOnClose(q) ==
    [q EXCEPT !.sock = "closed",
              !.promise = IF q.promise = "pending" THEN "resolved" ELSE q.promise]

\* the 'error' handler: reject(err); the socket is destroyed by the error
CliOnError(q) ==
    [q EXCEPT !.sock = "destroyed",
              !.promise = IF q.promise = "pending" THEN "rejected" ELSE q.promise]

\* mutant: the 10 s timer rejects and leaves the socket as it is
CliOnTimeoutLeavesSocket(q) ==
    IF q.sock \in {"closed", "destroyed"}
    THEN [q EXCEPT !.timer = "off"]
    ELSE [q EXCEPT !.timer = "off",
                   !.promise = IF q.promise = "pending" THEN "rejected"
                               ELSE q.promise]

\* the 10 s timer: destroys a socket that is not destroyed yet and rejects
CliOnTimeout(q) ==
    IF q.sock \in {"closed", "destroyed"}
    THEN [q EXCEPT !.timer = "off"]
    ELSE [q EXCEPT !.timer = "off", !.sock = "destroyed",
                   !.promise = IF q.promise = "pending" THEN "rejected"
                               ELSE q.promise]

\* checkDomain calls whoisQuery
CliStartQuery(c) ==
    [c EXCEPT !.pc = "query", !.q = CliWhoisQuery, !.queries = c.queries + 1,
              !.attempts = c.attempts + 1]

\* `${prefix}.${domainExt}` of the prefix main is at
CliDomain(c) == c.domainPrefixes[c.idx] \o <<".">> \o c.tld.domainExt

\* mutant: checkDomain allows itself one attempt more
CliCheckNextFourAttempts(c) ==
    IF c.idx < Len(c.domainPrefixes)
    THEN CliStartQuery([c EXCEPT !.idx = c.idx + 1, !.retries = 4,
                                 !.attempts = 0, !.waits = 0])
    ELSE [c EXCEPT !.pc = "exited", !.file = Append(c.file, Footer),
                   !.exit = <<0>>]

\* main's loop after a checkDomain call returned: the next prefix, or the
\* footer and process.exit(0)
CliCheckNext(c) ==
    IF c.idx < Len(c.domainPrefixes)
    THEN CliStartQuery([c EXCEPT !.idx = c.idx + 1, !.retries = 3,
                                 !.attempts = 0, !.waits = 0])
    ELSE [c EXCEPT !.pc = "exited", !.file = Append(c.file, Footer),
                   !.exit = <<0>>]

\* mutant: a failed attempt is followed by the next one at once
CliSettledNoWait(c, q) ==
    LET d == [c EXCEPT !.q = q]
    IN  IF q.promise = "resolved"
        THEN IF q.response # <<>> /\ Includes(q.response, c.tld.noMatchPattern)
             THEN CliCheckNext([d EXCEPT !.file = Append(c.file, CliDomain(c)),
                                         !.returned = Append(c.returned, TRUE)])
             ELSE CliCheckNext([d EXCEPT !.returned = Append(c.returned, FALSE)])
        ELSE IF c.retries = 1
             THEN CliCheckNext([d EXCEPT !.retries = 0,
                                         !.returned = Append(c.returned, FALSE)])
             ELSE CliStartQuery([d EXCEPT !.retries = c.retries - 1])

\* checkDomain after its whoisQuery call settled as q; a failure with
\* retries left starts the 1 s timer (counted in waits); what checkDomain
\* returns is kept in returned
CliSettled(c, q) ==
    LET d == [c EXCEPT !.q = q]
    IN  IF q.promise = "resolved"
        THEN IF q.response # <<>> /\ Includes(q.response, c.tld.noMatchPattern)
             THEN CliCheckNext([d EXCEPT !.file = Append(c.file, CliDomain(c)),
                                         !.returned = Append(c.returned, TRUE)])
             ELSE CliCheckNext([d EXCEPT !.returned = Append(c.returned, FALSE)])
        ELSE IF c.retries = 1
             THEN CliCheckNext([d EXCEPT !.retries = 0,
                                         !.returned = Append(c.returned, FALSE)])
             ELSE [d EXCEPT !.retries = c.retries - 1, !.pc = "backoff",
                            !.waits = c.waits + 1]

\* ------------------------------------------------- the HTTP route (http)
maxKeywords == 10
maxTlds == 10

\* String.prototype.split(','): the pieces between the commas
RECURSIVE Split(_)
Split(s) ==
    IF \A i \in DOMAIN s : s[i] # ","
    THEN << s >>
    ELSE LET i == CHOOSE j \in DOMAIN s :
                      s[j] = "," /\ \A l \in 1 .. j - 1 : s[l] # ","
         IN  << SubSeq(s, 1, i - 1) >> \o Split(SubSeq(s, i + 1, Len(s)))

\* keyword.split(',').map(k => k.trim()).filter(k => k.length > 0)
SplitKeywords(s) ==
    SelectSeq([i \in DOMAIN Split(s) |-> Trim(Split(s)[i])],
              LAMBDA k : Len(k) > 0)

\* an entry of body.keywords: a string, or a JSON value of another type
StringEntry(s) == [isString |-> TRUE, text |-> s]
OtherEntry == [isString |-> FALSE, text |-> <<>>]

\* body.keywords.forEach(...): the split keywords of the string entries
RECURSIVE ProcessKeywords(_)
ProcessKeywords(entries) ==
    IF entries = <<>> THEN <<>>
    ELSE (IF Head(entries).isString THEN SplitKeywords(Head(entries).text)
          ELSE <<>>) \o ProcessKeywords(Tail(entries))

\* Array.prototype.slice(0, n)
Slice(s, n) == SubSeq(s, 1, IF Len(s) < n THEN Len(s) ELSE n)

\* the characters [a-zA-Z0-9-] of the string model
LabelChars == {"a", "b", "c", "d", "e", "f", "g", "h", "7", "-"}

\* KeywordInput's isValidKeyword: /^[a-zA-Z0-9-]+$/
isValidKeyword(keyword) ==
    Len(keyword) > 0 /\ \A i \in DOMAIN keyword : keyword[i] \in LabelChars

\* the KeywordInput component after it is mounted: its three pieces of
\* state, and the lists it has passed to onKeywordsChange
KeywordInputMounted ==
    [inputValue |-> <<>>, keywords |-> <<>>, error |-> <<>>, notified |-> <<>>]

\* handleInputChange: the text is kept and the error message cleared
handleInputChange(c, value) == [c EXCEPT !.inputValue = value, !.error = <<>>]

\* mutant: the valid keywords are taken over and the others dropped
handleAddKeywordsPartial(c) ==
    LET newKeywords == SplitKeywords(c.inputValue)
        validKeywords == SelectSeq(newKeywords, isValidKeyword)
    IN  IF Trim(c.inputValue) = <<>>
        THEN [c EXCEPT !.error = <<"Please enter at least one keyword">>]
        ELSE [c EXCEPT !.keywords = validKeywords,
                       !.notified = Append(c.notified, validKeywords),
                       !.error = <<>>]

\* handleAddKeywords ('Update Keywords'): an error message, or the new
\* keyword list, which is also passed to onKeywordsChange
handleAddKeywords(c) ==
    LET newKeywords == SplitKeywords(c.inputValue)
        invalidKeywords == SelectSeq(newKeywords, LAMBDA kw : ~isValidKeyword(kw))
    IN  IF Trim(c.inputValue) = <<>>
        THEN [c EXCEPT !.error = <<"Please enter at least one keyword">>]
        ELSE IF Len(invalidKeywords) > 0
        THEN [c EXCEPT !.error = <<"Invalid keywords: ">> \o invalidKeywords[1]]
        ELSE [c EXCEPT !.keywords = newKeywords,
                       !.notified = Append(c.notified, newKeywords),
                       !.error = <<>>]

\* the keywords the page holds after v was typed into a fresh component and
\* 'Update Keywords' was clicked
PageKeywords(v) ==
    LET c == handleAddKeywords(handleInputChange(KeywordInputMounted, v))
    IN  IF c.notified = <<>> THEN <<>> ELSE c.notified[1]

\* a request body: json = FALSE stands for a body that is not JSON, null
\* for the JSON text `null`; keywords (tlds) is <<>> when the field is
\* missing, not an array or an empty array
Body(kw, tl) == [json |-> TRUE, null |-> FALSE, keywords |-> kw, tlds |-> tl]
NotJson == [json |-> FALSE, null |-> FALSE, keywords |-> <<>>, tlds |-> <<>>]
NullBody == [json |-> TRUE, null |-> TRUE, keywords |-> <<>>, tlds |-> <<>>]

\* the page's handleSearch: the body it posts for the keywords of the
\* keyword input and the selected TLDs
PageBodies(inputs, selections) ==
    { Body([i \in DOMAIN PageKeywords(v) |-> StringEntry(PageKeywords(v)[i])], t) :
        v \in { w \in inputs : PageKeywords(w) # <<>> },
        t \in { u \in selections : u # <<>> } }

\* what the keyword input is given
KeywordInputs ==
    { <<"a", ",", " ", "b">>, <<"c">>, <<"a", " ", "b">>, <<" ", ",">> }

\* what is typed into the keyword input in PageSpec
TypedTexts ==
    KeywordInputs
    \cup { <<>>, <<" ">>, <<" ", "a", "-", "7", ",", ",">>,
           <<"c", ",", "a", "!">> }

\* the bodies of RouteSpec: the page's, and those of other HTTP clients
RouteBodies ==
    PageBodies(KeywordInputs, { <<COM, IO>>, <<COM>> })
    \cup { NotJson,
           NullBody,
           Body(<<>>, <<COM>>),
           Body(<< StringEntry(<<"c">>) >>, <<>>),
           Body(<< StringEntry(<<"a", " ", "b">>), OtherEntry >>, <<ZZ, COM>>),
           Body(<< StringEntry(<<" ", ",">>) >>, <<COM>>),
           Body(<< StringEntry(<<"c">>) >>, <<ZZ>>) }

\* the requests of RouteSpec
RouteRequests ==
    { [kind |-> "GET", body |-> NotJson] }
    \cup { [kind |-> "POST", body |-> b] : b \in RouteBodies }

\* large bodies: up to MaxEntries distinct keywords, as entries of their own
\* or comma-separated in one entry, and up to MaxEntries names
Keyword(i) ==
    << KeywordPool[((i - 1) % Len(KeywordPool)) + 1][1] >>
        \o (IF i > Len(KeywordPool) THEN <<"7">> ELSE <<>>)

RECURSIVE CommaList(_)
CommaList(n) ==
    IF n = 1 THEN Keyword(1) ELSE CommaList(n - 1) \o <<",">> \o Keyword(n)

LimitBodies ==
    { Body(kw, tl) :
        kw \in { [i \in 1 .. n |-> StringEntry(Keyword(i))] : n \in 1 .. MaxEntries }
               \cup { << StringEntry(CommaList(n)) >> : n \in 1 .. MaxEntries },
        tl \in { [i \in 1 .. n |-> COM] : n \in {1, MaxEntries - 1, MaxEntries} }
               \cup { [i \in 1 .. n |-> IF i = n THEN IO ELSE COM] :
                         n \in {MaxEntries - 1, MaxEntries} } }

LimitRequests == { [kind |-> "POST", body |-> b] : b \in LimitBodies }

\* one request of the route:
\*   pc       none, initializing (initialize awaits readFile), parsing
\*            (request.json), running, pacing, done
\*   tasks    per task of its checkDomains call: st is waiting, inflight
\*            or settled, result is <<>> or <<what checkSingleDomain returned>>
NoRequest ==
    [pc |-> "none", kind |-> "none", body |-> NotJson,
     limitedKeywords |-> <<>>, limitedTlds |-> <<>>, domainsToCheck |-> <<>>,
     chunkIdx |-> 0, tasks |-> <<>>, results |-> <<>>, delays |-> 0,
     response |-> <<>>]

\* the route module after it is loaded; initializeCalls counts the calls of
\* domainCheckService.initialize, registryRead tells that some request has
\* read tldConfigs
RouteLoaded ==
    [serviceInitialized |-> FALSE, initializeCalls |-> 0,
     registryRead |-> FALSE,
     reqs |-> [r \in 1 .. MaxRequests |-> NoRequest]]

\* a task of a request's call that is not started yet
Waiting == [st |-> "waiting", result |-> <<>>]

\* mutant: every entry is returned, enabled or not
getEnabledTldsAll(cfgs) == cfgs

\* tldConfigs.filter(tld => tld.enabled)
getEnabledTlds(cfgs) == SelectSeq(cfgs, LAMBDA tld : tld.enabled)

\* NextResponse.json(...) of the two handlers, as one record
Response(status, error) ==
    [status |-> status, success |-> FALSE, error |-> error, tlds |-> <<>>,
     results |-> <<>>, limitApplied |-> FALSE,
     totalRequestedKeywords |-> 0, totalProcessedKeywords |-> 0,
     totalRequestedTlds |-> 0, totalProcessedTlds |-> 0]

\* GET after initializeService: the enabled TLDs' names and display names
GetHandler(q, cfgs) ==
    [q EXCEPT !.pc = "done",
              !.response =
                  << [Response(200, <<>>) EXCEPT
                        !.success = TRUE,
                        !.tlds = [i \in DOMAIN getEnabledTlds(cfgs) |->
                                    [name |-> getEnabledTlds(cfgs)[i].name,
                                     displayName |->
                                         getEnabledTlds(cfgs)[i].displayName]]] >>]

\* the response of a POST whose checkDomains call returned
PostResponse(q) ==
    LET processedKeywords == ProcessKeywords(q.body.keywords)
    IN  [Response(200, <<>>) EXCEPT
            !.success = TRUE,
            !.results = q.results,
            !.limitApplied = (Len(processedKeywords) > maxKeywords)
                              \/ (Len(q.body.tlds) > maxTlds),
            !.totalRequestedKeywords = Len(processedKeywords),
            !.totalProcessedKeywords = Len(q.limitedKeywords),
            !.totalRequestedTlds = Len(q.body.tlds),
            !.totalProcessedTlds = Len(q.limitedTlds)]

\* the tasks of window c are started
StartWindow(q, c) ==
    [q EXCEPT !.chunkIdx = c,
              !.pc = "running",
              !.tasks = [k \in DOMAIN q.tasks |->
                            IF k \in ChunkTasks(ChunksOf(q.domainsToCheck), c)
                            THEN [st |-> "inflight", result |-> <<>>]
                            ELSE q.tasks[k]]]

\* checkDomains(kw, tl) called by the POST handler, up to its first
\* suspension; the handler's catch turns the throw into a 500 response
CallCheckDomains(q, cfgs, kw, tl) ==
    LET valid == ValidTlds(cfgs, tl)
        items == BuildTasks(cfgs, kw, valid)
        called == [q EXCEPT !.limitedKeywords = kw, !.limitedTlds = tl,
                            !.domainsToCheck = items,
                            !.tasks = [k \in DOMAIN items |-> Waiting]]
    IN  IF valid = <<>>
        THEN [q EXCEPT !.limitedKeywords = kw, !.limitedTlds = tl,
                       !.pc = "done",
                       !.response = << Response(500, <<"No valid TLDs selected">>) >>]
        ELSE IF items = <<>>
        THEN [called EXCEPT !.pc = "done", !.response = << PostResponse(called) >>]
        ELSE StartWindow(called, 1)

\* mutant: the keywords are passed on without the limit
PostHandlerUnlimited(q, cfgs) ==
    CallCheckDomains(q, cfgs, ProcessKeywords(q.body.keywords), q.body.tlds)

\* POST after request.json(): validation of the body (`body.keywords` of a
\* null body throws a TypeError, which the handler's catch turns into a 500
\* response), keyword processing, the two limits, and the call of
\* checkDomains
PostHandler(q, cfgs) ==
    LET body == q.body
        processedKeywords == ProcessKeywords(body.keywords)
        fail(msg) == [q EXCEPT !.pc = "done", !.response = << Response(400, msg) >>]
    IN  IF ~body.json THEN fail(<<"Invalid JSON in request body">>)
        ELSE IF body.null
        THEN [q EXCEPT !.pc = "done",
                       !.response =
                           << Response(500, <<"Cannot read properties of null">>) >>]
        ELSE IF body.keywords = <<>> THEN fail(<<"Keywords are required">>)
        ELSE IF body.tlds = <<>> THEN fail(<<"TLDs are required">>)
        ELSE IF processedKeywords = <<>> THEN fail(<<"No valid keywords provided">>)
        ELSE CallCheckDomains(q, cfgs, Slice(processedKeywords, maxKeywords),
                              Slice(body.tlds, maxTlds))

\* the handler of request q after `await initializeService()`
AfterInitializeService(q, cfgs) ==
    IF q.kind = "GET" THEN GetHandler(q, cfgs) ELSE [q EXCEPT !.pc = "parsing"]

\* what checkSingleDomain returns for item, by the outcome of its exchange
TaskResult(item, outcome) ==
    [domain |-> item.domain, available |-> (outcome = "available"),
     tld |-> item.tld, timestamp |-> now,
     error |-> IF outcome = "failed" THEN <<"failed">> ELSE <<>>]

\* the results the window the loop is at appends, in task order
WindowResults(q) ==
    LET w == ChunksOf(q.domainsToCheck)
        first == Offset(w, q.chunkIdx)
    IN  [j \in 1 .. Len(w[q.chunkIdx]) |-> q.tasks[first + j].result[1]]

\* task k of request q settles; when its window has settled the results
\* are appended and the pacing timer is armed
TaskSettles(q, k, outcome) ==
    LET s == [q EXCEPT !.tasks[k] =
                  [st |-> "settled",
                   result |-> << TaskResult(q.domainsToCheck[k], outcome) >>]]
    IN  IF \A j \in ChunkTasks(ChunksOf(q.domainsToCheck), q.chunkIdx) :
               s.tasks[j].st = "settled"
        THEN [s EXCEPT !.pc = "pacing", !.results = q.results \o WindowResults(s)]
        ELSE s

\* the pacing timer of request q fires: the next window, or the response
PacingOver(q) ==
    LET d == [q EXCEPT !.delays = q.delays + 1]
    IN  IF q.chunkIdx < Len(ChunksOf(q.domainsToCheck))
        THEN StartWindow(d, q.chunkIdx + 1)
        ELSE [d EXCEPT !.pc = "done", !.response = << PostResponse(d) >>]

\* ----------------------------------------------------------------- actions
Init ==
    /\ tldConfigs = <<>>
    /\ pc = "idle"
    /\ keywords = <<>>
    /\ tlds = <<>>
    /\ domainsToCheck = <<>>
    /\ chunks = <<>>
    /\ chunkIdx = 0
    /\ exch = <<>>
    /\ results = <<>>
    /\ thrown = <<>>
    /\ delays = 0
    /\ now = 0
    /\ cli = CliNotStarted
    /\ http = RouteLoaded
    /\ ui = KeywordInputMounted

\* mutant: the error of a document without a tlds array is not caught and
\* the registry stays empty
LoadTldsStrict(file) ==
    IF ~file.read \/ file.json = <<>> THEN DefaultTlds
    ELSE IF file.json[1].tlds = <<>> THEN <<>>
    ELSE file.json[1].tlds[1]

\* what initialize assigns to this.tldConfigs: readFile, JSON.parse and the
\* test of config.tlds all sit in the inner try, whose catch assigns the
\* default configuration
LoadTlds(file) ==
    IF ~file.read THEN DefaultTlds
    ELSE IF file.json = <<>> THEN DefaultTlds
    ELSE IF file.json[1].tlds = <<>> THEN DefaultTlds
    ELSE file.json[1].tlds[1]

\* initialize(): the file's tlds array, or the default configuration when
\* the file cannot be read or parsed
Initialize(file) ==
    /\ pc = "idle"
    /\ tldConfigs' = LoadTlds(file)
    /\ UNCHANGED <<pc, keywords, tlds, domainsToCheck, chunks, chunkIdx,
                   exch, results, thrown, delays, now,
                   cli, http, ui>>

\* checkDomains(kw, tl) up to its first suspension
CheckDomains(kw, tl) ==
    /\ pc = "idle"
    /\ keywords' = kw
    /\ tlds' = tl
    /\ delays' = 0
    /\ UNCHANGED <<tldConfigs, now, cli, http, ui>>
    /\ LET valid == ValidTlds(tldConfigs, tl)
           items == BuildTasks(tldConfigs, kw, valid)
           cs == ChunksOf(items)
       IN  IF valid = <<>>
           THEN /\ thrown' = <<"No valid TLDs selected">>
                /\ pc' = "threw"
                /\ domainsToCheck' = <<>>
                /\ chunks' = <<>>
                /\ chunkIdx' = 0
                /\ exch' = <<>>
                /\ results' = <<>>
           ELSE /\ thrown' = <<>>
                /\ domainsToCheck' = items
                /\ chunks' = cs
                /\ IF cs = <<>>
                   THEN /\ chunkIdx' = 0
                        /\ exch' = <<>>
                        /\ results' = <<>>
                        /\ pc' = "returned"
                   ELSE /\ chunkIdx' = 1
                        /\ Continue(StartChunk([k \in 1 .. Len(items) |-> NoExchange],
                                               items, cs, 1),
                                    items, cs, 1, <<>>)

\* the pacing timer fires: the loop starts the next window, or the call
\* returns results
PacingElapsed ==
    /\ pc = "pacing"
    /\ delays' = delays + 1
    /\ UNCHANGED <<tldConfigs, keywords, tlds, domainsToCheck, chunks, thrown,
                   now, cli, http, ui>>
    /\ IF chunkIdx < Len(chunks)
       THEN /\ chunkIdx' = chunkIdx + 1
            /\ Continue(StartChunk(exch, domainsToCheck, chunks, chunkIdx + 1),
                        domainsToCheck, chunks, chunkIdx + 1, results)
       ELSE /\ pc' = "returned"
            /\ UNCHANGED <<chunkIdx, exch, results>>

\* mutant: a task that fails takes the unsettled tasks of its window with it
EventAbortsWindow(k, q) ==
    LET e == [j \in DOMAIN exch |->
                 IF j = k THEN q
                 ELSE IF q.promise = "rejected" /\ exch[k].promise = "pending"
                         /\ exch[j].promise = "pending"
                 THEN Reject([exch[j] EXCEPT
                                 !.sock = IF exch[j].sock = "none" THEN "none"
                                          ELSE "destroyed",
                                 !.connectTimeout = ClearTimer(exch[j].connectTimeout),
                                 !.dataTimeout = ClearTimer(exch[j].dataTimeout)],
                             domainsToCheck[j], <<"Aborted">>)
                 ELSE exch[j]]
    IN  /\ UNCHANGED <<tldConfigs, keywords, tlds, domainsToCheck, chunks,
                       chunkIdx, thrown, delays, now, cli, http, ui>>
        /\ IF pc = "running"
           THEN Continue(e, domainsToCheck, chunks, chunkIdx, results)
           ELSE /\ exch' = e
                /\ UNCHANGED <<pc, results>>

\* an event of task k's exchange leaves it as q
Event(k, q) ==
    /\ UNCHANGED <<tldConfigs, keywords, tlds, domainsToCheck, chunks,
                   chunkIdx, thrown, delays, now, cli, http, ui>>
    /\ IF pc = "running"
       THEN Continue([exch EXCEPT ![k] = q], domainsToCheck, chunks, chunkIdx,
                     results)
       ELSE /\ exch' = [exch EXCEPT ![k] = q]
            /\ UNCHANGED <<pc, results>>

\* the DNS timer of task k fires
DnsTimeout(k) ==
    /\ exch[k].dns = "pending"
    /\ Event(k, OnDnsTimeout(exch[k], domainsToCheck[k]))

\* the resolver answers task k's lookup, with an address or an error
Lookup(k, err) ==
    /\ exch[k].dns \in {"pending", "timedOut"}
    /\ Event(k, OnLookup(exch[k], domainsToCheck[k], err))

\* task k's connect timer fires
ConnectTimeout(k) ==
    /\ exch[k].connectTimeout = "armed"
    /\ Event(k, OnConnectTimeout(exch[k], domainsToCheck[k]))

\* task k's connection is established
Connect(k) ==
    /\ exch[k].sock = "connecting"
    /\ Event(k, OnConnect(exch[k], domainsToCheck[k]))

\* task k's first-byte timer fires
DataTimeout(k) ==
    /\ exch[k].dataTimeout = "armed5000"
    /\ Event(k, OnDataTimeout(exch[k], domainsToCheck[k]))

\* a chunk arrives on task k's socket
Receive(k, data) ==
    /\ exch[k].sock \in {"open", "ended"}
    /\ Event(k, OnData(exch[k], data))

Data(k, data) ==
    /\ Len(exch[k].response) < MaxChunks
    /\ Receive(k, data)

\* the same, with the text bounded in tokens
DataDetail(k, data) ==
    /\ Len(exch[k].response) + Len(data) <= MaxText
    /\ Receive(k, data)

\* time passes
Tick ==
    /\ now < MaxClock
    /\ now' = now + 1
    /\ UNCHANGED <<tldConfigs, pc, keywords, tlds, domainsToCheck, chunks,
                   chunkIdx, exch, results, thrown, delays, cli,
                   http, ui>>

\* task k's idle timer fires
IdleTimeout(k) ==
    /\ exch[k].dataTimeout = "armed1000"
    /\ Event(k, OnIdleTimeout(exch[k]))

\* the server closes task k's connection
Close(k) ==
    /\ exch[k].sock \in {"open", "ended"}
    /\ Event(k, OnClose(exch[k], domainsToCheck[k]))

\* task k's socket fails: refused while connecting, reset afterwards
Error(k) ==
    /\ exch[k].sock \in {"connecting", "open", "ended"}
    /\ Event(k, OnError(exch[k], domainsToCheck[k],
                        IF exch[k].sock = "connecting" THEN "ECONNREFUSED"
                        ELSE "ECONNRESET"))

Next ==
    \/ \E file \in ConfigFiles : Initialize(file)
    \/ \E kw \in KeywordArgs, tl \in TldArgs : CheckDomains(kw, tl)
    \/ PacingElapsed
    \/ \E k \in DOMAIN exch : DnsTimeout(k)
    \/ \E k \in DOMAIN exch, err \in BOOLEAN : Lookup(k, err)
    \/ \E k \in DOMAIN exch : ConnectTimeout(k)
    \/ \E k \in DOMAIN exch : Connect(k)
    \/ \E k \in DOMAIN exch : DataTimeout(k)
    \/ \E k \in DOMAIN exch, data \in Chunks : Data(k, data)
    \/ \E k \in DOMAIN exch : IdleTimeout(k)
    \/ \E k \in DOMAIN exch : Close(k)
    \/ \E k \in DOMAIN exch : Error(k)

Spec == Init /\ [][Next]_vars

\* Node runs the callback of every timer that stays armed: the only
\* scheduling the code can count on.  Servers and the resolver owe nothing.
TimersFire ==
    /\ WF_vars(PacingElapsed)
    /\ \A k \in 1 .. (MaxKeywords * MaxTlds) :
          /\ WF_vars(k \in DOMAIN exch /\ DnsTimeout(k))
          /\ WF_vars(k \in DOMAIN exch /\ ConnectTimeout(k))
          /\ WF_vars(k \in DOMAIN exch /\ DataTimeout(k))
          /\ WF_vars(k \in DOMAIN exch /\ IdleTimeout(k))

FairSpec == Spec /\ TimersFire

\* single exchanges in detail, with a running clock, and batches of tasks
\* that fail at once
DetailNext ==
    \/ \E file \in DetailConfigFiles : Initialize(file)
    \/ \E call \in DetailCalls : CheckDomains(call[1], call[2])
    \/ PacingElapsed
    \/ Tick
    \/ \E k \in DOMAIN exch : DnsTimeout(k)
    \/ \E k \in DOMAIN exch, err \in BOOLEAN : Lookup(k, err)
    \/ \E k \in DOMAIN exch : ConnectTimeout(k)
    \/ \E k \in DOMAIN exch : Connect(k)
    \/ \E k \in DOMAIN exch : DataTimeout(k)
    \/ \E k \in DOMAIN exch, data \in DetailChunks : DataDetail(k, data)
    \/ \E k \in DOMAIN exch : IdleTimeout(k)
    \/ \E k \in DOMAIN exch : Close(k)
    \/ \E k \in DOMAIN exch : Error(k)

DetailSpec == Init /\ [][DetailNext]_vars

\* two sibling exchanges whose answers arrive in pieces
StreamNext ==
    \/ \E file \in DetailConfigFiles : Initialize(file)
    \/ \E call \in StreamCalls : CheckDomains(call[1], call[2])
    \/ PacingElapsed
    \/ \E k \in DOMAIN exch : DnsTimeout(k)
    \/ \E k \in DOMAIN exch, err \in BOOLEAN : Lookup(k, err)
    \/ \E k \in DOMAIN exch : ConnectTimeout(k)
    \/ \E k \in DOMAIN exch : Connect(k)
    \/ \E k \in DOMAIN exch : DataTimeout(k)
    \/ \E k \in DOMAIN exch, data \in StreamChunks : DataDetail(k, data)
    \/ \E k \in DOMAIN exch : IdleTimeout(k)
    \/ \E k \in DOMAIN exch : Close(k)
    \/ \E k \in DOMAIN exch : Error(k)

StreamSpec == Init /\ [][StreamNext]_vars

\* the state of the service, which the command-line checker does not touch
service == <<tldConfigs, pc, keywords, tlds, domainsToCheck, chunks, chunkIdx,
             exch, results, thrown, delays, now>>

\* main after the TLD was entered: TLD_DATA is read and searched, and the
\* dictionary file is asked for
CliTldEntered(ext, tldData) ==
    /\ cli.pc = "idle"
    /\ cli' = IF ~tldData.ok
              THEN [cli EXCEPT !.pc = "exited", !.exit = <<1>>]
              ELSE LET t == CliFindTld(tldData.lines, ext)
                   IN  IF t.domainExt = Zero
                       THEN [cli EXCEPT !.pc = "exited", !.exit = <<2>>]
                       ELSE [cli EXCEPT !.pc = "asked", !.tld = t]
    /\ UNCHANGED <<service, http, ui>>

\* mutant: the results file is created before the dictionary is read
CliMainWritesFirst(dictionary, writable) ==
    /\ cli.pc = "asked"
    /\ cli' = IF ~writable
              THEN [cli EXCEPT !.pc = "exited", !.exit = <<4>>]
              ELSE IF ~dictionary.ok
              THEN [cli EXCEPT !.pc = "exited", !.exit = <<3>>,
                               !.file = <<Header>>]
              ELSE CliCheckNext(
                      [cli EXCEPT !.file = <<Header>>,
                                  !.domainPrefixes =
                                      SelectSeq(dictionary.lines,
                                                LAMBDA line : Trim(line) # <<>>)])
    /\ UNCHANGED <<service, http, ui>>

\* main after the dictionary file was entered: the file is read, the
\* results file is created with its header, and checkDomain is called for
\* the first prefix
CliMain(dictionary, writable) ==
    /\ cli.pc = "asked"
    /\ cli' = IF ~dictionary.ok
              THEN [cli EXCEPT !.pc = "exited", !.exit = <<3>>]
              ELSE IF ~writable
              THEN [cli EXCEPT !.pc = "exited", !.exit = <<4>>]
              ELSE CliCheckNext(
                      [cli EXCEPT !.file = <<Header>>,
                                  !.domainPrefixes =
                                      SelectSeq(dictionary.lines,
                                                LAMBDA line : Trim(line) # <<>>)])
    /\ UNCHANGED <<service, http, ui>>

\* an event of the exchange in progress leaves it as q
CliEvent(q) ==
    /\ cli' = IF cli.q.promise = "pending" /\ q.promise # "pending"
              THEN CliSettled(cli, q)
              ELSE [cli EXCEPT !.q = q]
    /\ UNCHANGED <<service, http, ui>>

CliLookup(err) ==
    /\ cli.q.dns = "pending"
    /\ CliEvent(CliOnLookup(cli.q, err))

CliConnect ==
    /\ cli.q.sock = "connecting"
    /\ CliEvent(CliOnConnect(cli.q, CliDomain(cli)))

CliData(data) ==
    /\ cli.q.sock = "open"
    /\ Len(cli.q.response) + Len(data) <= MaxText
    /\ CliEvent(CliOnData(cli.q, data))

CliClose ==
    /\ cli.q.sock = "open"
    /\ CliEvent(CliOnClose(cli.q))

CliError ==
    /\ cli.q.sock \in {"connecting", "open"}
    /\ CliEvent(CliOnError(cli.q))

\* the 10 s timer of the exchange in progress fires (the timers of earlier
\* exchanges find their sockets destroyed; process.exit drops the rest)
CliTimeout ==
    /\ cli.pc # "exited"
    /\ cli.q.timer = "armed"
    /\ CliEvent(CliOnTimeout(cli.q))

\* the 1 s wait between two attempts is over
CliBackoffElapsed ==
    /\ cli.pc = "backoff"
    /\ cli' = CliStartQuery(cli)
    /\ UNCHANGED <<service, http, ui>>

\* the text of the keyword input changes
InputChange(value) ==
    /\ ui' = handleInputChange(ui, value)
    /\ UNCHANGED <<service, cli, http>>

\* 'Update Keywords' is clicked
UpdateKeywords ==
    /\ Len(ui.notified) < MaxUpdates
    /\ ui' = handleAddKeywords(ui)
    /\ UNCHANGED <<service, cli, http>>

\* the keyword input of the page on its own
PageNext ==
    \/ \E value \in TypedTexts : InputChange(value)
    \/ UpdateKeywords

PageSpec == Init /\ [][PageNext]_vars

\* the state of a checkDomains call made outside the route
callVars == <<pc, keywords, tlds, domainsToCheck, chunks, chunkIdx, exch, results,
          thrown, delays, now>>

\* request r arrives and its handler runs to its first suspension:
\* initializeService calls initialize unless serviceInitialized is set
RouteRequest(r, req) ==
    /\ http.reqs[r].pc = "none"
    /\ r > 1 => http.reqs[r - 1].pc # "none"
    /\ LET q == [NoRequest EXCEPT !.kind = req.kind, !.body = req.body]
       IN  IF http.serviceInitialized
           THEN http' = [http EXCEPT
                            !.reqs[r] = AfterInitializeService(q, tldConfigs),
                            !.registryRead = @ \/ (req.kind = "GET")]
           ELSE http' = [http EXCEPT
                            !.reqs[r] = [q EXCEPT !.pc = "initializing"],
                            !.initializeCalls = @ + 1]
    /\ UNCHANGED <<tldConfigs, callVars, cli, ui>>

\* the readFile of request r's initialize call is over: the registry is
\* assigned, serviceInitialized is set and the handler goes on
RouteInitialized(r, file) ==
    /\ http.reqs[r].pc = "initializing"
    /\ tldConfigs' = LoadTlds(file)
    /\ http' = [http EXCEPT
                   !.serviceInitialized = TRUE,
                   !.reqs[r] = AfterInitializeService(http.reqs[r], tldConfigs'),
                   !.registryRead = @ \/ (http.reqs[r].kind = "GET")]
    /\ UNCHANGED <<callVars, cli, ui>>

\* request.json() of request r is over
RouteBodyParsed(r) ==
    /\ http.reqs[r].pc = "parsing"
    /\ LET q == PostHandler(http.reqs[r], tldConfigs)
       IN  http' = [http EXCEPT
                       !.reqs[r] = q,
                       !.registryRead =
                           @ \/ q.pc = "running" \/ q.response[1].status # 400]
    /\ UNCHANGED <<tldConfigs, callVars, cli, ui>>

\* mutant: the results list is shared by the calls in progress
RouteTaskSettlesShared(r, k, outcome) ==
    /\ http.reqs[r].pc = "running"
    /\ k \in DOMAIN http.reqs[r].tasks
    /\ http.reqs[r].tasks[k].st = "inflight"
    /\ LET q == TaskSettles(http.reqs[r], k, outcome)
           new == SubSeq(q.results, Len(http.reqs[r].results) + 1, Len(q.results))
       IN  http' = [http EXCEPT
                       !.reqs = [x \in DOMAIN http.reqs |->
                                   IF x = r THEN q
                                   ELSE IF http.reqs[x].pc \in {"running", "pacing"}
                                   THEN [http.reqs[x] EXCEPT !.results = @ \o new]
                                   ELSE http.reqs[x]]]
    /\ UNCHANGED <<tldConfigs, callVars, cli, ui>>

\* the exchange of task k of request r's call settles
RouteTaskSettles(r, k, outcome) ==
    /\ http.reqs[r].pc = "running"
    /\ k \in DOMAIN http.reqs[r].tasks
    /\ http.reqs[r].tasks[k].st = "inflight"
    /\ http' = [http EXCEPT !.reqs[r] = TaskSettles(http.reqs[r], k, outcome)]
    /\ UNCHANGED <<tldConfigs, callVars, cli, ui>>

\* the pacing timer of request r's call fires
RoutePacingElapsed(r) ==
    /\ http.reqs[r].pc = "pacing"
    /\ http' = [http EXCEPT !.reqs[r] = PacingOver(http.reqs[r])]
    /\ UNCHANGED <<tldConfigs, callVars, cli, ui>>

\* the route serving up to MaxRequests requests that may overlap
RouteNext ==
    \/ \E r \in 1 .. MaxRequests, req \in RouteRequests : RouteRequest(r, req)
    \/ \E r \in 1 .. MaxRequests, file \in ConfigFiles : RouteInitialized(r, file)
    \/ \E r \in 1 .. MaxRequests : RouteBodyParsed(r)
    \/ \E r \in 1 .. MaxRequests, k \in 1 .. (MaxKeywords * MaxTlds),
          outcome \in {"available", "failed"} : RouteTaskSettles(r, k, outcome)
    \/ \E r \in 1 .. MaxRequests : RoutePacingElapsed(r)

RouteSpec == Init /\ [][RouteNext]_vars

\* one POST request with a large body, every exchange of which fails
LimitNext ==
    \/ \E req \in LimitRequests : RouteRequest(1, req)
    \/ \E file \in ConfigFiles : RouteInitialized(1, file)
    \/ RouteBodyParsed(1)
    \/ \E k \in 1 .. (MaxEntries * MaxEntries) : RouteTaskSettles(1, k, "failed")
    \/ RoutePacingElapsed(1)

LimitSpec == Init /\ [][LimitNext]_vars

\* the service and the command-line checker are two programs: a behaviour
\* is a run of one of them
WhoisNext ==
    \/ \E file \in DetailConfigFiles : cli.pc = "idle" /\ Initialize(file)
    \/ \E call \in DetailCalls : cli.pc = "idle" /\ CheckDomains(call[1], call[2])
    \/ PacingElapsed
    \/ Tick
    \/ \E k \in DOMAIN exch : DnsTimeout(k)
    \/ \E k \in DOMAIN exch, err \in BOOLEAN : Lookup(k, err)
    \/ \E k \in DOMAIN exch : ConnectTimeout(k)
    \/ \E k \in DOMAIN exch : Connect(k)
    \/ \E k \in DOMAIN exch : DataTimeout(k)
    \/ \E k \in DOMAIN exch, data \in DetailChunks : DataDetail(k, data)
    \/ \E k \in DOMAIN exch : IdleTimeout(k)
    \/ \E k \in DOMAIN exch : Close(k)
    \/ \E k \in DOMAIN exch : Error(k)
    \/ \E ext \in TldAnswers, tldData \in TldDataFiles :
            (tldConfigs = <<>> /\ pc = "idle") /\ CliTldEntered(ext, tldData)
    \/ \E dictionary \in DictionaryFiles, writable \in BOOLEAN :
            CliMain(dictionary, writable)
    \/ \E err \in BOOLEAN : CliLookup(err)
    \/ CliConnect
    \/ \E data \in DetailChunks : CliData(data)
    \/ CliClose
    \/ CliError
    \/ CliTimeout
    \/ CliBackoffElapsed

WhoisSpec == Init /\ [][WhoisNext]_vars

\* ------------------------------------------------------- shared vocabulary
\* the requested names that are enabled registry names, counted from the
\* arguments of the call
NumValidTlds ==
    Cardinality({ i \in DOMAIN tlds :
        \E c \in DOMAIN tldConfigs :
            tldConfigs[c].name = tlds[i] /\ tldConfigs[c].enabled })

\* task k is in flight: started and not yet settled
InFlight(k) == exch[k].promise = "pending"

\* task k's socket exists and is neither closed nor destroyed
SocketOpen(k) == exch[k].sock \in {"connecting", "open", "ended"}

\* the window task k belongs to
WindowOf(k) == CHOOSE c \in DOMAIN chunks : k \in ChunkTasks(chunks, c)

IsFailure(r) == r.error # <<>> /\ r.available = FALSE

\* ------------------------------------------------------------------ claims
\* C1: a call with at least one valid TLD does not throw, and the list it
\* returns has exactly len(keywords) * len(validTlds) entries, whatever the
\* outcomes of the exchanges were.
C1_ResultCount ==
    /\ (pc = "threw" => NumValidTlds = 0)
    /\ (pc = "returned" => Len(results) = Len(keywords) * NumValidTlds)

C1_Witness ==
    /\ pc = "returned"
    /\ Len(results) = 4
    /\ Len(tlds) = 2
    /\ \E i, j, k \in DOMAIN results :
          /\ results[i].error = <<"Failed to resolve hostname: ", "DNS lookup timeout">>
          /\ results[j].error = <<"Failed to connect to WHOIS server: ", "ECONNRESET">>
          /\ results[k].available

\* C2: entry k*|validTlds|+j of the list is keywords[k] + '.' + validTlds[j]
\* with tld validTlds[j], at return and while the list is being filled, for
\* every completion order of the tasks.
C2_SubmissionOrder ==
    LET valid == ValidTlds(tldConfigs, tlds)
        m == Len(valid)
    IN  /\ \A i \in DOMAIN results :
              LET k == ((i - 1) \div m) + 1
                  j == ((i - 1) % m) + 1
              IN  /\ k \in DOMAIN keywords
                  /\ results[i].domain = keywords[k] \o <<".">> \o valid[j]
                  /\ results[i].tld = valid[j]
        /\ (pc = "returned" => Len(results) = Len(keywords) * m)

C2_Witness ==
    /\ pc = "returned"
    /\ Len(results) = 4
    /\ results[1].domain = <<"a", ".", "i", "o">>
    /\ results[2].domain = <<"a", ".", "c", "o", "m">>
    /\ results[3].domain = <<"b", ".", "i", "o">>
    /\ results[4].domain = <<"b", ".", "c", "o", "m">>
    /\ results[1].error # <<>>
    /\ results[2].available

\* C3: when no requested name is an enabled registry name the call throws
\* 'No valid TLDs selected' and has built no task, started no lookup, opened
\* no socket and produced no result.
C3_NoValidTlds ==
    (pc # "idle" /\ NumValidTlds = 0) =>
        /\ pc = "threw"
        /\ thrown = <<"No valid TLDs selected">>
        /\ domainsToCheck = <<>>
        /\ exch = <<>>
        /\ results = <<>>

C3_Witness ==
    /\ pc = "threw"
    /\ tlds = <<ZZ, ZZ>>
    /\ \E c \in DOMAIN tldConfigs : tldConfigs[c].name = ZZ
    /\ keywords # <<>>

\* C4: a task whose exchange failed has a result with available = false and
\* a non-empty error; its failure neither makes the call throw nor keeps a
\* sibling of its window from being started, and the returned list holds
\* the result of every task.
C4_FailureIsolated ==
    /\ \A k \in DOMAIN exch :
          exch[k].promise = "rejected" =>
              /\ exch[k].result # <<>>
              /\ exch[k].result[1].available = FALSE
              /\ Len(exch[k].result[1].error) > 0
              /\ pc # "threw"
              /\ \A j \in ChunkTasks(chunks, WindowOf(k)) : exch[j].promise # "none"
    /\ (pc = "returned" =>
          /\ Len(results) = Len(domainsToCheck)
          /\ \A k \in DOMAIN exch :
                exch[k].result # <<>> /\ results[k] = exch[k].result[1])

C4_Witness ==
    /\ pc = "returned"
    /\ Len(results) = 4
    /\ exch[1].promise = "rejected"
    /\ results[1].error = <<"Failed to connect to WHOIS server: ", "ECONNREFUSED">>
    /\ results[2].available
    /\ results[3].error = <<>>
    /\ results[4].available

\* C5: every result produced, by checkSingleDomain or by the allSettled
\* handling, has available = false whenever its error is set.
C5_ErrorImpliesUnavailable ==
    /\ \A i \in DOMAIN results : results[i].error # <<>> => ~results[i].available
    /\ \A k \in DOMAIN exch :
          /\ exch[k].result # <<>> /\ exch[k].result[1].error # <<>>
                => ~exch[k].result[1].available
          /\ LET r == SettledResult(exch[k], domainsToCheck[k])
             IN  r.error # <<>> => ~r.available

C5_Witness ==
    \E k \in DOMAIN exch :
        /\ exch[k].result # <<>>
        /\ exch[k].result[1].error # <<>>
        /\ Includes(exch[k].response, domainsToCheck[k].pattern)

\* C6: at every moment at most 3 tasks are in flight and at most 3 sockets
\* exist that are neither closed nor destroyed.
C6_AtMostThree ==
    /\ Cardinality({ k \in DOMAIN exch : InFlight(k) }) <= 3
    /\ Cardinality({ k \in DOMAIN exch : SocketOpen(k) }) <= 3

C6_Witness ==
    /\ Len(domainsToCheck) = 4
    /\ Cardinality({ k \in DOMAIN exch : InFlight(k) }) = 3
    /\ Cardinality({ k \in DOMAIN exch : SocketOpen(k) }) = 3
    /\ exch[4].promise = "none"

\* C7: a task of window c is started only after every task of the windows
\* before c has settled and c - 1 pacing delays have elapsed.
C7_WindowsSequential ==
    \A k \in DOMAIN exch :
        exch[k].promise # "none" =>
            /\ delays >= WindowOf(k) - 1
            /\ \A j \in DOMAIN exch :
                  WindowOf(j) < WindowOf(k) =>
                      exch[j].promise \in {"resolved", "rejected"}

C7_Witness ==
    /\ chunkIdx = 2
    /\ InFlight(4)
    /\ delays = 1
    /\ \A j \in 1 .. 3 : exch[j].promise \in {"resolved", "rejected"}

\* C8: every checkDomains call eventually returns (and so every task
\* completes), whatever the resolver and the servers do, provided armed
\* timers fire.
C8_EveryCallReturns == (pc \in {"running", "pacing"}) ~> (pc = "returned")

\* C9: an exchange whose idle timer has fired (socket.end() after 1 s of
\* silence) completes successfully with the text accumulated so far: when
\* its task settles the result has no error and is classified against the
\* pattern.
C9_IdleMeansSuccess ==
    [][ \A k \in DOMAIN exch :
            (k \in DOMAIN exch' /\ exch[k].sock = "ended"
                /\ exch[k].result = <<>> /\ exch'[k].result # <<>>)
            => /\ exch'[k].result[1].error = <<>>
               /\ exch'[k].result[1].available
                    = Includes(exch[k].response, domainsToCheck[k].pattern) ]_vars

\* the step is the expiry of one of task k's two timers
TimerExpires(k) == ConnectTimeout(k) \/ DataTimeout(k) \/ IdleTimeout(k)

\* the step leaves every task but k as it was
SiblingsUntouched(k) ==
    \A j \in DOMAIN exch : j # k => (j \in DOMAIN exch' /\ exch'[j] = exch[j])

\* the step destroys task k's socket and completes k as a failure
DestroysAndFails(k) ==
    /\ exch'[k].sock = "destroyed"
    /\ exch'[k].promise = "rejected"
    /\ exch'[k].result # <<>>
    /\ IsFailure(exch'[k].result[1])

TaskMoves ==
    { <<"none", "none">>, <<"none", "pending">>, <<"none", "rejected">>,
      <<"pending", "pending">>, <<"pending", "resolved">>,
      <<"pending", "rejected">>, <<"resolved", "resolved">>,
      <<"rejected", "rejected">> }

\* the step runs a handler of task k that rejects
FailureEvent(k) ==
    DnsTimeout(k) \/ ConnectTimeout(k) \/ DataTimeout(k) \/ Error(k)

\* C11: a task only moves Pending -> InFlight -> Completed; it has a result
\* exactly when it is completed, a completed task keeps its result for ever,
\* and the 'close' that follows a rejecting handler leaves the task failed.
C11_OutcomeFinal ==
    [][ \A k \in DOMAIN exch :
            /\ k \in DOMAIN exch'
            /\ <<exch[k].promise, exch'[k].promise>> \in TaskMoves
            /\ (exch'[k].promise \in {"resolved", "rejected"})
                    = (exch'[k].result # <<>>)
            /\ exch[k].result # <<>> =>
                    /\ exch'[k].result = exch[k].result
                    /\ exch'[k].promise = exch[k].promise
            /\ (FailureEvent(k) /\ exch[k].promise = "pending") =>
                    /\ exch'[k].promise = "rejected"
                    /\ IsFailure(exch'[k].result[1]) ]_vars

C11_Witness ==
    \E k \in DOMAIN exch :
        /\ exch[k].promise = "rejected"
        /\ exch[k].dns = "answered"
        /\ exch[k].result[1].error
              = <<"Failed to resolve hostname: ", "DNS lookup timeout">>
        /\ pc = "returned"

\* p occurs in t: some stretch of t spells p, token for token
Occurs(p, t) ==
    \E a \in 0 .. Len(t) :
        /\ a + Len(p) <= Len(t)
        /\ \A i \in 1 .. Len(p) : t[a + i] = p[i]

\* C12: a task whose exchange completed successfully with text t has no
\* error, and is available exactly when its pattern occurs in t.
C12_Classified ==
    \A k \in DOMAIN exch :
        exch[k].promise = "resolved" =>
            /\ exch[k].result[1].error = <<>>
            /\ exch[k].result[1].available
                  = Occurs(domainsToCheck[k].pattern, exch[k].response)

C12_Witness ==
    /\ pc = "returned"
    /\ Len(results) = 1
    /\ domainsToCheck[1].pattern = NoMatch
    /\ exch[1].response = <<"no", "No", "match">>
    /\ results[1].available
    /\ results[1].error = <<>>

\* C13: n tasks run in ceil(n/3) windows; every window but the last holds
\* exactly 3 consecutive tasks, the last the remaining 1 to 3; the windows
\* started so far are the first chunkIdx ones, and all of them at return.
C13_Windows ==
    LET n == Len(domainsToCheck)
        w == (n + 2) \div 3
    IN  /\ Len(chunks) = w
        /\ \A c \in DOMAIN chunks :
              /\ chunks[c] = SubSeq(domainsToCheck, 3 * (c - 1) + 1,
                                    IF c < w THEN 3 * c ELSE n)
              /\ Len(chunks[c]) \in 1 .. 3
              /\ (c < w => Len(chunks[c]) = 3)
        /\ \A k \in DOMAIN exch :
              (exch[k].promise # "none") = (k <= 3 * chunkIdx)
        /\ (pc = "returned" => chunkIdx = w)

C13_Witness ==
    /\ pc = "returned"
    /\ Len(domainsToCheck) = 7
    /\ chunkIdx = 3
    /\ Len(chunks[1]) = 3 /\ Len(chunks[2]) = 3 /\ Len(chunks[3]) = 1
    /\ Len(results) = 7

\* C14: the timestamp of every result is the clock value at which its task
\* completed, so it is never earlier than the moment the task's exchange
\* settled.
C14_TimestampAtCompletion ==
    /\ \A k \in DOMAIN exch :
          exch[k].result # <<>> =>
              exch[k].result[1].timestamp >= exch[k].settledAt[1]
    /\ \A i \in DOMAIN results :
          results[i].timestamp >= exch[i].settledAt[1]

\* task j can take the next step of its exchange
CanProceed(j) ==
    /\ exch[j].dns = "pending" => ENABLED Lookup(j, FALSE)
    /\ exch[j].sock = "connecting" => ENABLED Connect(j)
    /\ exch[j].sock \in {"open", "ended"} => ENABLED Close(j)

\* C15: the DNS timeout of task k leaves every sibling as it was, and while
\* k waits for its resolver a sibling in flight can go on with its own
\* exchange.
C15_DnsTimeoutIsolated ==
    [][ \A k \in DOMAIN exch :
            /\ DnsTimeout(k) => SiblingsUntouched(k)
            /\ exch[k].dns \in {"pending", "timedOut"} =>
                    \A j \in DOMAIN exch : (j # k /\ InFlight(j)) => CanProceed(j) ]_vars

C15_Witness ==
    /\ pc = "running"
    /\ Len(chunks[1]) = 3
    /\ exch[1].dns = "timedOut"
    /\ exch[1].result[1].error
          = <<"Failed to resolve hostname: ", "DNS lookup timeout">>
    /\ exch[2].promise = "resolved"
    /\ exch[2].result[1].available
    /\ exch[3].sock = "open"

\* the exchange q failed in the resolution step
ResolutionFailed(q) ==
    /\ q.promise = "rejected"
    /\ Head(q.result[1].error) = "Failed to resolve hostname: "

\* C16: a lookup that errors or times out fails the exchange, and an
\* exchange that failed so never has a socket, nor a connect timer, nor a
\* write, also when the resolver answers after the timeout.
C16_NoConnectionWithoutAddress ==
    [][ \A k \in DOMAIN exch :
            /\ ((Lookup(k, TRUE) \/ DnsTimeout(k)) /\ exch[k].dns = "pending")
                    => ResolutionFailed(exch'[k])
            /\ exch[k].dns = "timedOut" => ResolutionFailed(exch[k])
            /\ ResolutionFailed(exch[k]) =>
                    /\ exch'[k].sock = "none"
                    /\ exch'[k].connectTimeout = "unset"
                    /\ exch'[k].written = <<>>
                    /\ ResolutionFailed(exch'[k]) ]_vars

C16_Witness ==
    /\ Len(domainsToCheck) >= 2
    /\ ResolutionFailed(exch[1])
    /\ exch[1].result[1].error[2] = "DNS lookup timeout"
    /\ exch[1].dns = "answered"
    /\ exch[1].sock = "none"
    /\ exch[2].sock = "open"

\* the server has no character other than whitespace
BlankServer(server) == \A i \in DOMAIN server : server[i] = " "

\* C17: a started task whose server is empty or whitespace only has failed
\* with the invalid-server error, and neither a DNS lookup nor a socket ever
\* exists for it; a server with any other character goes on to the lookup.
C17_InvalidServer ==
    \A k \in DOMAIN exch :
        exch[k].promise # "none" =>
            IF BlankServer(domainsToCheck[k].server)
            THEN /\ exch[k].promise = "rejected"
                 /\ exch[k].result[1].error
                        = <<"Invalid server address: ",
                            "Invalid WHOIS server address">>
                 /\ exch[k].result[1].available = FALSE
                 /\ exch[k].dns = "none"
                 /\ exch[k].sock = "none"
                 /\ exch[k].connectTimeout = "unset"
            ELSE exch[k].dns # "none"

C17_Witness ==
    /\ pc = "returned"
    /\ Len(results) = 1
    /\ domainsToCheck[1].server = Spaces
    /\ results[1].error[1] = "Invalid server address: "
    /\ exch[1].dns = "none"

\* a step takes one exchange from q to r: what it has written changes only
\* when the connection is established, from nothing to the one query line
WritesOnce(q, r, query) ==
    /\ Len(r.written) <= 1
    /\ r.sock \in {"none", "connecting"} => r.written = <<>>
    /\ r.written # q.written =>
            /\ q.sock = "connecting"
            /\ r.sock = "open"
            /\ q.written = <<>>
    /\ (q.sock = "connecting" /\ r.sock = "open") =>
            r.written = << query \o <<"\r\n">> >>

\* C18: an exchange, of the service or of the command-line checker, writes
\* exactly once, in the step that establishes its connection, and the line
\* is the domain followed by CRLF: nothing is written before, nothing
\* after, and nothing by an exchange whose connection is never established.
C18_SingleWrite ==
    [][ /\ \A k \in DOMAIN exch :
                WritesOnce(exch[k], exch'[k], domainsToCheck[k].domain)
        /\ \A k \in DOMAIN exch' : k \notin DOMAIN exch => exch'[k].written = <<>>
        /\ IF cli'.queries = cli.queries
           THEN cli.queries > 0 => WritesOnce(cli.q, cli'.q, CliDomain(cli))
           ELSE cli'.q.written = <<>> ]_vars

C18_Witness ==
    /\ pc = "returned"
    /\ Len(results) = 1
    /\ results[1].error = <<>>
    /\ exch[1].response # <<>>
    /\ exch[1].written = << domainsToCheck[1].domain \o <<"\r\n">> >>

\* how far the lookup and the socket of an exchange have got
DnsRank(d) ==
    CASE d = "none" -> 0 [] d = "pending" -> 1 [] d = "timedOut" -> 2
      [] d = "answered" -> 3

SockRank(c) ==
    CASE c = "none" -> 0 [] c = "connecting" -> 1 [] c = "open" -> 2
      [] c = "ended" -> 3 [] c = "destroyed" -> 4

\* C19: every started task with a server name runs a lookup of its own,
\* whatever its siblings resolved; the lookup and the socket of a task only
\* move forward, so a task starts one lookup, at its start, and creates one
\* socket, on the answer to its own lookup; a settled task starts nothing.
C19_OneAttempt ==
    [][ /\ \A k \in DOMAIN exch' :
              (exch'[k].promise # "none" /\ ~BlankServer(domainsToCheck'[k].server))
                  => exch'[k].dns # "none"
        /\ \A k \in DOMAIN exch :
              /\ DnsRank(exch'[k].dns) >= DnsRank(exch[k].dns)
              /\ SockRank(exch'[k].sock) >= SockRank(exch[k].sock)
              /\ (exch[k].dns = "none" /\ exch'[k].dns # "none")
                    => exch[k].promise = "none" /\ exch'[k].dns = "pending"
              /\ (exch[k].sock = "none" /\ exch'[k].sock # "none")
                    => /\ exch[k].dns = "pending"
                       /\ exch'[k].dns = "answered"
                       /\ exch'[k].sock = "connecting"
              /\ exch[k].promise \in {"resolved", "rejected"}
                    => /\ exch'[k].promise = exch[k].promise
                       /\ exch'[k].sock = exch[k].sock
                       /\ exch'[k].written = exch[k].written ]_vars

C19_Witness ==
    /\ pc = "returned"
    /\ Len(domainsToCheck) = 2
    /\ domainsToCheck[1].server = domainsToCheck[2].server
    /\ results[1].error = <<"Connection timeout for ">> \o domainsToCheck[1].server
    /\ results[2].error = <<>>
    /\ exch[1].dns = "answered"
    /\ exch[2].dns = "answered"

\* C20: a socket error on an established connection makes the exchange
\* fail, with the error set and available false, whatever was received.
C20_ErrorAfterConnectFails ==
    [][ \A k \in DOMAIN exch :
            (Error(k) /\ exch[k].sock \in {"open", "ended"}) =>
                /\ exch'[k].promise = "rejected"
                /\ exch'[k].result[1].error
                      = <<"Failed to connect to WHOIS server: ", "ECONNRESET">>
                /\ exch'[k].result[1].available = FALSE
                /\ pc' = "returned" =>
                      \E i \in DOMAIN results' :
                          results'[i] = exch'[k].result[1] ]_vars

C20_Witness ==
    /\ pc = "returned"
    /\ Len(results) = 1
    /\ Occurs(domainsToCheck[1].pattern, exch[1].response)
    /\ results[1].error = <<"Failed to connect to WHOIS server: ", "ECONNRESET">>
    /\ results[1].available = FALSE

\* the step settles the attempt in progress: by the server's close, or by a
\* failed lookup, a socket error or the 10 s timer
CliSucceeds == cli.q.promise = "pending" /\ CliClose
CliFails ==
    cli.q.promise = "pending" /\ (CliLookup(TRUE) \/ CliError \/ CliTimeout)

\* checkDomain has returned: main is at the next prefix or has exited
CliMovedOn == cli'.idx = cli.idx + 1 \/ cli'.pc = "exited"

\* C21: checkDomain makes at most 3 attempts for a domain; an attempt for
\* the same domain only follows a failed one; after a success there is no
\* further attempt; the third failure makes checkDomain return without a
\* line for the domain in the results file.
C21_ThreeAttempts ==
    [][ /\ cli'.attempts <= 3
        /\ (cli'.queries # cli.queries /\ cli'.idx = cli.idx) =>
                /\ cli.pc = "backoff"
                /\ cli.q.promise = "rejected"
                /\ cli'.attempts = cli.attempts + 1
        /\ CliSucceeds => CliMovedOn
        /\ CliFails =>
                IF cli.attempts = 3
                THEN /\ CliMovedOn
                     /\ cli'.file \in {cli.file, Append(cli.file, Footer)}
                ELSE /\ cli'.pc = "backoff"
                     /\ cli'.idx = cli.idx
                     /\ cli'.queries = cli.queries
                     /\ cli'.file = cli.file ]_vars

C21_Witness ==
    /\ cli.pc = "exited"
    /\ Len(cli.domainPrefixes) = 1
    /\ cli.attempts = 3
    /\ cli.q.promise = "rejected"
    /\ cli.file = <<Header, Footer>>

\* the name n was requested by the call and is enabled in the registry
RequestedAndEnabled(n) ==
    /\ \E i \in DOMAIN tlds : tlds[i] = n
    /\ \E c \in DOMAIN tldConfigs :
          tldConfigs[c].name = n /\ tldConfigs[c].enabled

\* C25: a call with a valid TLD among the requested ones does not throw;
\* every task, every exchange and every result is for a TLD that was
\* requested and is enabled, so nothing is built or queried for a dropped one.
C25_DroppedTlds ==
    /\ (pc = "threw" => \A i \in DOMAIN tlds : ~RequestedAndEnabled(tlds[i]))
    /\ \A i \in DOMAIN domainsToCheck : RequestedAndEnabled(domainsToCheck[i].tld)
    /\ DOMAIN exch = DOMAIN domainsToCheck
    /\ \A k \in DOMAIN exch :
          exch[k].written # <<>> =>
              exch[k].written[1] = domainsToCheck[k].domain \o <<"\r\n">>
    /\ \A i \in DOMAIN results : RequestedAndEnabled(results[i].tld)

C25_Witness ==
    /\ pc = "returned"
    /\ Len(tlds) = 2
    /\ ~RequestedAndEnabled(tlds[1])
    /\ \E c \in DOMAIN tldConfigs : tldConfigs[c].name = tlds[1]
    /\ RequestedAndEnabled(tlds[2])
    /\ Len(results) = Len(keywords)
    /\ Len(results) > 0
    /\ exch[1].written # <<>>

\* C28: a call that ran W > 0 windows has waited for the pacing timer W - 1
\* times when it returns, and never waits after its last window.
C28_PacingBetweenWindows ==
    /\ ((pc = "returned" /\ Len(chunks) > 0) => delays = Len(chunks) - 1)
    /\ (pc = "pacing" => chunkIdx < Len(chunks))

\* C29: the text of an exchange grows only by a chunk that arrives on its
\* own socket, appended whole at the end; a chunk for one exchange leaves
\* its siblings' texts alone; and the text the exchange completes with is
\* the one accumulated, unchanged by the close.
C29_TextIsChunksInOrder ==
    [][ \A k \in DOMAIN exch :
            /\ \A data \in StreamChunks :
                  DataDetail(k, data) =>
                      /\ exch'[k].response = exch[k].response \o data
                      /\ SiblingsUntouched(k)
            /\ exch'[k].response # exch[k].response =>
                  \E data \in StreamChunks : DataDetail(k, data)
            /\ (Close(k) /\ exch[k].promise = "pending") =>
                  /\ exch'[k].response = exch[k].response
                  /\ exch'[k].result[1].available
                        = Occurs(domainsToCheck[k].pattern, exch[k].response) ]_vars

C29_Witness ==
    /\ pc = "returned"
    /\ Len(results) = 2
    /\ exch[1].response = <<"match", "No", "match">>
    /\ exch[2].response = <<"No", "No">>
    /\ results[1].available
    /\ ~results[2].available
    /\ results[2].error = <<>>

\* ------------------------------------------------ claims about the route
\* C22: initialize is called at most once, and the registry does not
\* change once a request has read it.
C22_InitializedOnce ==
    [][ /\ http'.initializeCalls <= 1
        /\ http.registryRead => tldConfigs' = tldConfigs ]_vars

\* the enabled entries of a registry, in its order
RECURSIVE EnabledInOrder(_)
EnabledInOrder(cfgs) ==
    IF cfgs = <<>> THEN <<>>
    ELSE (IF Head(cfgs).enabled THEN << Head(cfgs) >> ELSE <<>>)
            \o EnabledInOrder(Tail(cfgs))

\* request r gets its response in this step
Responds(r) == http.reqs[r].response = <<>> /\ http'.reqs[r].response # <<>>

\* C23: only initialize assigns the registry: every other step of a
\* request, whatever its calls do, leaves tldConfigs as it was loaded; and
\* what a GET returns are the enabled entries of the registry, in its order.
C23_RegistryUnchanged ==
    [][ /\ (\A r \in 1 .. MaxRequests, file \in ConfigFiles :
                ~RouteInitialized(r, file)) => tldConfigs' = tldConfigs
        /\ http'.serviceInitialized =>
                \E file \in ConfigFiles :
                    tldConfigs' = LoadTlds(file)
        /\ \A r \in 1 .. MaxRequests :
              (Responds(r) /\ http'.reqs[r].kind = "GET") =>
                  LET t == http'.reqs[r].response[1].tlds
                      e == EnabledInOrder(tldConfigs')
                  IN  /\ Len(t) = Len(e)
                      /\ \A i \in DOMAIN t :
                            /\ t[i].name = e[i].name
                            /\ t[i].displayName = e[i].displayName ]_vars

C23_Witness ==
    /\ http.reqs[1].kind = "POST"
    /\ http.reqs[1].pc = "done"
    /\ Len(http.reqs[1].results) = 4
    /\ http.reqs[1].results[2].error # <<>>
    /\ http.reqs[2].kind = "GET"
    /\ http.reqs[2].pc = "done"
    /\ Len(tldConfigs) = 5
    /\ Len(http.reqs[2].response[1].tlds) = 3

\* request r has called checkDomains and the call built tasks
Called(r) == http.reqs[r].tasks # <<>>

\* C24: the results list of a call holds the results of its own tasks, in
\* task order, window by window, and the response of its request holds
\* exactly that list, whatever other calls do meanwhile.
C24_ResultsNotMixed ==
    \A r \in 1 .. MaxRequests :
        LET q == http.reqs[r]
        IN  /\ Len(q.results) <= Len(q.tasks)
            /\ \A i \in DOMAIN q.results :
                  /\ q.tasks[i].st = "settled"
                  /\ q.results[i] = q.tasks[i].result[1]
                  /\ q.results[i].domain = q.domainsToCheck[i].domain
            /\ \A k \in DOMAIN q.tasks :
                  q.tasks[k].st = "settled" =>
                      /\ q.tasks[k].result[1].domain = q.domainsToCheck[k].domain
                      /\ \E i \in DOMAIN q.limitedKeywords, j \in DOMAIN q.limitedTlds :
                            q.domainsToCheck[k].domain
                                = q.limitedKeywords[i] \o <<".">> \o q.limitedTlds[j]
            /\ (Called(r) /\ q.pc = "done") =>
                  /\ Len(q.results) = Len(q.tasks)
                  /\ q.response[1].results = q.results

C24_Witness ==
    /\ Called(1) /\ Called(2)
    /\ http.reqs[1].pc = "done" /\ http.reqs[2].pc = "done"
    /\ Len(http.reqs[1].results) = 4
    /\ Len(http.reqs[2].results) = 2
    /\ http.reqs[1].results[1].domain = http.reqs[2].results[1].domain
    /\ http.reqs[1].results[1].available
    /\ ~http.reqs[2].results[1].available
    /\ http.reqs[2].delays = 1 /\ http.reqs[1].delays = 2

\* C30: the tasks in flight, of all calls together, never exceed the window
\* size.
TotalInFlight ==
    Cardinality({ t \in (1 .. MaxRequests) \X (1 .. (MaxKeywords * MaxTlds)) :
                    /\ t[2] \in DOMAIN http.reqs[t[1]].tasks
                    /\ http.reqs[t[1]].tasks[t[2]].st = "inflight" })

C30_ProcessWideBound == TotalInFlight <= concurrencyLimit

\* a keyword is a bare label: not empty, letters, digits and hyphens only
BareLabel(keyword) ==
    keyword # <<>> /\ \A i \in DOMAIN keyword : keyword[i] \in LabelChars

\* C27: every keyword a request passes to checkDomains is a bare label.
C27_KeywordsAreLabels ==
    \A r \in 1 .. MaxRequests :
        \A i \in DOMAIN http.reqs[r].limitedKeywords :
            BareLabel(http.reqs[r].limitedKeywords[i])

\* the number of entries of list that have an enabled registry entry
RECURSIVE CountValid(_)
CountValid(list) ==
    IF list = <<>> THEN 0
    ELSE (IF \E c \in DOMAIN tldConfigs :
                tldConfigs[c].name = Head(list) /\ tldConfigs[c].enabled
          THEN 1 ELSE 0) + CountValid(Tail(list))

\* C26: checkDomains gets the first 10 processed keywords and the first 10
\* requested TLDs, and builds a task for every pair of a keyword and a valid
\* TLD it is given; a response holds at most 100 results; limitApplied tells
\* whether more than 10 keywords or more than 10 TLDs were requested.
C26_RequestLimits ==
    LET q == http.reqs[1]
        requested == ProcessKeywords(q.body.keywords)
    IN  q.pc \in {"running", "pacing", "done"} =>
            /\ Len(q.limitedKeywords) <= 10
            /\ Len(q.limitedTlds) <= 10
            /\ \A i \in DOMAIN q.limitedKeywords : q.limitedKeywords[i] = requested[i]
            /\ \A i \in DOMAIN q.limitedTlds : q.limitedTlds[i] = q.body.tlds[i]
            /\ Len(q.limitedKeywords) = 10 \/ Len(q.limitedKeywords) = Len(requested)
            /\ Len(q.limitedTlds) = 10 \/ Len(q.limitedTlds) = Len(q.body.tlds)
            /\ Len(q.tasks) = Len(q.limitedKeywords) * CountValid(q.limitedTlds)
            /\ Len(q.tasks) <= 100
            /\ (q.pc = "done" /\ q.response[1].success) =>
                  /\ Len(q.response[1].results) = Len(q.tasks)
                  /\ q.response[1].limitApplied
                        = (Len(requested) > 10 \/ Len(q.body.tlds) > 10)

C26_Witness ==
    /\ http.reqs[1].pc = "done"
    /\ Len(http.reqs[1].body.keywords) = 1
    /\ Len(ProcessKeywords(http.reqs[1].body.keywords)) = 11
    /\ Len(http.reqs[1].body.tlds) = 11
    /\ Len(http.reqs[1].response[1].results) = 100
    /\ http.reqs[1].response[1].limitApplied

\* ---------------------------------------------------------------- C31
\* C31: every task of the call carries the server and the pattern of a
\* registry entry that is enabled and has the task's TLD as its name.
C31_TaskFromEnabledEntry ==
    \A k \in DOMAIN domainsToCheck :
        \E c \in DOMAIN tldConfigs :
            /\ tldConfigs[c].enabled
            /\ tldConfigs[c].name = domainsToCheck[k].tld
            /\ tldConfigs[c].server = domainsToCheck[k].server
            /\ tldConfigs[c].availablePattern = domainsToCheck[k].pattern

\* ---------------------------------------------------------------- C32
\* C32: in the command-line checkDomain a further attempt for the same
\* domain starts only when a 1 s wait is over, so an attempt in progress
\* has one wait fewer behind it than attempts; a success after k failures
\* returns after k waits, a failure before the third starts a wait, and the
\* third failure returns after 2 waits without starting another.
C32_WaitsBetweenAttempts ==
    [][ /\ cli.pc = "query" => cli.waits = cli.attempts - 1
        /\ (cli'.queries # cli.queries /\ cli'.idx = cli.idx) =>
                /\ cli.pc = "backoff"
                /\ cli'.waits = cli.waits
        /\ CliSucceeds =>
                /\ cli.waits = cli.attempts - 1
                /\ cli'.pc # "backoff"
                /\ cli'.waits \in {0, cli.waits}
        /\ CliFails =>
                IF cli.attempts = 3
                THEN /\ cli.waits = 2
                     /\ cli'.pc # "backoff"
                     /\ cli'.waits \in {0, 2}
                ELSE /\ cli'.pc = "backoff"
                     /\ cli'.waits = cli.waits + 1 ]_vars

C32_Witness ==
    /\ cli.pc = "exited"
    /\ Len(cli.domainPrefixes) = 1
    /\ cli.attempts = 3
    /\ cli.waits = 2
    /\ cli.q.promise = "resolved"

\* ---------------------------------------------------------------- C33
\* the exchange q still has a lookup or a socket in progress
CliInFlight(q) == q.dns = "pending" \/ q.sock \in {"connecting", "open"}

\* the lines of the first n domains for which checkDomain returned true
RECURSIVE AvailableLines(_, _, _)
AvailableLines(prefixes, verdicts, n) ==
    IF n = 0 THEN <<>>
    ELSE AvailableLines(prefixes, verdicts, n - 1)
         \o (IF verdicts[n]
             THEN << prefixes[n] \o <<".">> \o cli.tld.domainExt >>
             ELSE <<>>)

\* the exchange the step leaves behind when it makes a whoisQuery call has
\* nothing in progress: the call follows the 1 s wait or main's start, or
\* the event that settled the exchange before it
CliPreviousDone ==
    \/ cli.pc \in {"asked", "backoff"} /\ ~CliInFlight(cli.q)
    \/ CliClose /\ ~CliInFlight(CliOnClose(cli.q))
    \/ CliError /\ ~CliInFlight(CliOnError(cli.q))
    \/ CliTimeout /\ ~CliInFlight(CliOnTimeout(cli.q))
    \/ CliLookup(TRUE) /\ ~CliInFlight(CliOnLookup(cli.q, TRUE))

\* C33: main checks the prefixes one after another: a whoisQuery call is
\* only made when the exchange before it has no lookup and no socket in
\* progress, and checkDomain returns for the prefixes in dictionary order;
\* the results file is the header, then the lines of the domains
\* checkDomain returned true for, in dictionary order, then (after the last
\* prefix) the footer.
C33_OneByOne ==
    [][ /\ cli'.queries # cli.queries => CliPreviousDone
        /\ cli'.idx \in {cli.idx, cli.idx + 1}
        /\ cli'.pc \in {"query", "backoff"} => Len(cli'.returned) = cli'.idx - 1
        /\ cli'.pc \in {"query", "backoff"} =>
                cli'.file = <<Header>>
                            \o AvailableLines(cli'.domainPrefixes, cli'.returned,
                                              Len(cli'.returned))
        /\ cli'.exit = <<0>> =>
                /\ Len(cli'.returned) = Len(cli'.domainPrefixes)
                /\ cli'.file = <<Header>>
                               \o AvailableLines(cli'.domainPrefixes, cli'.returned,
                                                 Len(cli'.returned))
                               \o <<Footer>> ]_vars

C33_Witness ==
    /\ cli.pc = "exited"
    /\ cli.returned = <<FALSE, TRUE>>
    /\ cli.domainPrefixes = << <<"a">>, <<"b">> >>
    /\ cli.attempts = 2
    /\ cli.file = <<Header, <<"b", ".">> \o COM, Footer>>

\* ---------------------------------------------------------------- C34
\* the task the service would run for the domain the command-line checker
\* is at, and its exchange when the server closes after the same text
CliAsTask ==
    [domain |-> CliDomain(cli), tld |-> cli.tld.domainExt,
     server |-> cli.tld.whoisQueryServer, pattern |-> cli.tld.noMatchPattern]

ServiceVerdict ==
    OnClose([NoExchange EXCEPT !.promise = "pending", !.dns = "answered",
                               !.sock = "open", !.response = cli.q.response],
            CliAsTask).result[1].available

\* C34: when the server closes the connection, checkDomain of the
\* command-line checker returns what checkSingleDomain of the service gives
\* as `available` for the same pattern and the same response text.
C34_SameVerdict ==
    [][ CliSucceeds =>
            cli'.returned[Len(cli'.returned)] = ServiceVerdict ]_vars

\* ---------------------------------------------------------------- C37
\* C37: main exits with code 1 when TLD_DATA cannot be read, 2 when no line
\* of TLD_DATA has the requested TLD, 3 when the dictionary cannot be read
\* and 4 when the results file cannot be created; in these runs no WHOIS
\* query is made, and with codes 1 to 3 the results file is not touched.
C37_ExitCodes ==
    [][ /\ \A ext \in TldAnswers, tldData \in TldDataFiles :
            CliTldEntered(ext, tldData) =>
                /\ ~tldData.ok => cli'.exit = <<1>>
                /\ (tldData.ok /\ \A k \in DOMAIN tldData.lines :
                                        tldData.lines[k][1] # ext)
                        => cli'.exit = <<2>>
        /\ \A dictionary \in DictionaryFiles, writable \in BOOLEAN :
            CliMain(dictionary, writable) =>
                /\ ~dictionary.ok => cli'.exit = <<3>>
                /\ (dictionary.ok /\ ~writable) => cli'.exit = <<4>>
        /\ (cli'.exit # <<>> /\ cli'.exit # <<0>>) =>
                /\ cli'.pc = "exited"
                /\ cli'.queries = 0
                /\ cli'.q = CliNoExchange
                /\ cli'.file = <<>>
        /\ cli.pc = "exited" => cli' = cli ]_vars

C37_Witness ==
    /\ cli.exit = <<4>>
    /\ cli.tld.domainExt = IO
    /\ cli.queries = 0
    /\ cli.file = <<>>

\* ---------------------------------------------------------------- C35
\* the file was read, parsed, and its document has a tlds array
HasTldsArray(file) ==
    /\ file.read
    /\ file.json # <<>>
    /\ file.json[1].tlds # <<>>

\* C35: initialize leaves the registry equal to the file's tlds array when
\* the file is readable JSON with a tlds array, and equal to the built-in
\* default (com, net, org, all enabled) in every other case.
C35_InitializeLoads ==
    [][ \A file \in ConfigFiles :
            Initialize(file) =>
                IF HasTldsArray(file)
                THEN tldConfigs' = file.json[1].tlds[1]
                ELSE /\ Len(tldConfigs') = 3
                     /\ tldConfigs'[1].name = COM
                     /\ tldConfigs'[2].name = NET
                     /\ tldConfigs'[3].name = ORG
                     /\ \A c \in 1 .. 3 : tldConfigs'[c].enabled ]_vars

C35_Witness ==
    /\ pc = "returned"
    /\ tldConfigs = DefaultTlds
    /\ tlds = <<COM, IO>>
    /\ Len(results) = Len(keywords)
    /\ results # <<>>

\* ---------------------------------------------------------------- C36
\* the body is not JSON, or its keywords or tlds is missing, not an array
\* or empty, or no keyword is left after splitting and trimming
BadBody(b) ==
    \/ ~b.json
    \/ b.keywords = <<>>
    \/ b.tlds = <<>>
    \/ ProcessKeywords(b.keywords) = <<>>

\* C36: a POST with a bad body is answered with status 400 and makes no
\* checkDomains call; a POST whose call throws 'No valid TLDs selected' is
\* answered with {success: false, error}; and no success response has an
\* empty result list.
C36_BadRequests ==
    [][ \A r \in 1 .. MaxRequests :
          (Responds(r) /\ http'.reqs[r].kind = "POST") =>
              LET q == http'.reqs[r]
                  resp == q.response[1]
              IN  /\ BadBody(q.body) =>
                        /\ resp.status = 400
                        /\ ~resp.success
                        /\ resp.error # <<>>
                        /\ q.limitedTlds = <<>>
                        /\ q.tasks = <<>>
                  /\ ( /\ ~BadBody(q.body)
                       /\ http.reqs[r].pc = "parsing"
                       /\ ValidTlds(tldConfigs, Slice(q.body.tlds, maxTlds)) = <<>> )
                      => /\ ~resp.success
                         /\ resp.error = <<"No valid TLDs selected">>
                         /\ resp.results = <<>>
                  /\ resp.success => resp.results # <<>> ]_vars

\* ---------------------------------------------------------------- C38
\* the pieces of text between the commas, trimmed, without the empty ones
RECURSIVE TrimmedPieces(_)
TrimmedPieces(pieces) ==
    IF pieces = <<>> THEN <<>>
    ELSE (IF Trim(Head(pieces)) = <<>> THEN <<>> ELSE << Trim(Head(pieces)) >>)
            \o TrimmedPieces(Tail(pieces))

\* the text is blank, or one of its keywords has a character that is not a
\* letter, a digit or a hyphen
Rejected(text) ==
    \/ \A i \in DOMAIN text : text[i] = " "
    \/ \E i \in DOMAIN TrimmedPieces(Split(text)) :
          \E j \in DOMAIN TrimmedPieces(Split(text))[i] :
              TrimmedPieces(Split(text))[i][j] \notin LabelChars

\* C38: a click on 'Update Keywords' with a blank input, or with a keyword
\* that has an invalid character, leaves the keyword list as it is and
\* passes nothing to the parent; any other click replaces the list by the
\* trimmed non-empty keywords in input order and passes that list to the
\* parent.
C38_AllOrNothing ==
    [][ UpdateKeywords =>
            IF Rejected(ui.inputValue)
            THEN /\ ui'.keywords = ui.keywords
                 /\ ui'.notified = ui.notified
                 /\ ui'.error # <<>>
            ELSE /\ ui'.keywords = TrimmedPieces(Split(ui.inputValue))
                 /\ ui'.notified = Append(ui.notified, ui'.keywords) ]_vars

C38_Witness ==
    /\ ui.inputValue = <<"c", ",", "a", "!">>
    /\ ui.error # <<>>
    /\ ui.keywords = << <<"a">>, <<"b">> >>
    /\ ui.notified = << << <<"a", "-", "7">> >>, << <<"a">>, <<"b">> >> >>

====
